---- MODULE Spec2Model ----
(***************************************************************************)
(* Lyric retrieval and analysis-response recovery of worshipwise:          *)
(*   - the Lyric Extractor (_extract_lyrics, identical in                  *)
(*     lyrics/analyze_lyrics.py and lyrics/lyrics_search_mcp_server.py),   *)
(*   - the Retrieval Orchestrator (LyricsClient.get_lyrics),               *)
(*   - the search/dedup/fetch loop of the MCP server's get_lyrics,         *)
(*   - the Response Parser (OllamaAnalyzer.analyze_lyrics).                *)
(* Text is modelled by TLA+ strings; characters are one-character          *)
(* substrings, so the regular expressions and the string methods of the    *)
(* source are computed character by character.                             *)
(***************************************************************************)
EXTENDS Integers, Sequences, FiniteSets, TLC

    \* ---- Lyric Extractor (_extract_lyrics)
VARIABLES
    page,       \* the parsed page: a sequence of elements in document order
    xpc,        \* "idle" | "structured" | "fallback" | "done"
    xresult     \* the value returned: [found, text, pass]
    \* ---- Retrieval Orchestrator (LyricsClient.get_lyrics)
VARIABLES
    title,      \* the title argument
    artist,     \* the artist argument: <<>> for None, <<a>> for the string a
    rpc,        \* "idle" | "start" | "direct" | "genius_search" | "genius_fetch"
                \*   | "google_search" | "google_fetch" | "fallback" | "done"
    ridx,       \* the position of the running loop (a URL or a query)
    urls,       \* direct_urls / genius_urls / google_urls of the running stage
    rlog,       \* history: the network requests issued so far, in order
    lastResp,   \* history: what the collaborator answered to the last request
    racceptable,\* history: some fetch answered 200 with an extraction > 100 chars
    rresult,    \* the value returned: [kind, text]
    rraised     \* an exception left get_lyrics

    \* ---- get_lyrics of the MCP server (lyrics_search_mcp_server.py)
VARIABLES
    max_results,    \* the max_results argument
    mpc,            \* "idle" | "search" | "dedup" | "fetch" | "done"
    mq,             \* the position of the query loop / of the fetch loop
    all_results,    \* the results of the queries, aggregated
    unique_results, \* the candidates the fetch loop iterates over
    client,         \* the httpx.Client: "none" | "open" | "closed"
    mfetched,       \* history: the URLs requested with client.get, in order
    mqlog,          \* history: per query, the cap passed and what the provider did
    mlast,          \* history: what the collaborator did on the last client.get
    mok,            \* history: per client.get, whether it gave a non-empty extraction
    mresult,        \* the value returned: [found, text]
    mraised         \* an exception left get_lyrics
    \* ---- OllamaAnalyzer.analyze_lyrics
VARIABLES
    atitle, aartist, alyrics,   \* the arguments
    apc,            \* "idle" | "start" | "request" | "parse" | "done"
    aoutcome,       \* history: what the model collaborator did
    aresponse,      \* the text _make_request returned, as tokens
    arecord,        \* the LyricsAnalysis returned
    abranch,        \* history: the return statement that built arecord
    araised         \* an exception left analyze_lyrics

    \* ---- main of lyrics/analyze_lyrics.py (the analysis CLI)
VARIABLES
    cpc,        \* "idle" | "fetch" | "check" | "analyze" | "output" | "exit"
    cjson,      \* args.json
    clyrics,    \* what get_lyrics returned: [kind, text]
    cstatus     \* the exit status of the process, -1 while it runs

    \* ---- OllamaWithMCP.chat_with_tools (lyrics/ollama_mcp_bridge.py)
VARIABLES
    bpc,        \* "idle" | "loop" | "handle" | "done"
    iteration,  \* the loop counter
    messages,   \* the conversation: a sequence of [role, content]
    bresponse,  \* the text _make_ollama_request returned last
    bhist,      \* history: the texts of all requests of the call, in order
    btools,     \* history: the number of calls of call_tool
    bresult,    \* what chat_with_tools returned: [kind, text]
    braised     \* an exception left chat_with_tools

    \* ---- analyze_lyrics of the labels CLI (analyze_lyrics.py at the root)
VARIABLES
    lpc,        \* "idle" | "call" | "extract" | "done" | "exit"
    lreply,     \* what call_ollama returned
    lresult,    \* what analyze_lyrics returned: [kind, text]
    lstatus     \* the exit status when call_ollama ended the process, else -1

xvars == <<page, xpc, xresult>>
rvars == <<title, artist, rpc, ridx, urls, rlog, lastResp, racceptable, rresult, rraised>>
mvars == <<max_results, mpc, mq, all_results, unique_results, client, mfetched,
           mqlog, mlast, mok, mresult, mraised>>
avars == <<atitle, aartist, alyrics, apc, aoutcome, aresponse, arecord, abranch,
           araised>>
cvars == <<cpc, cjson, clyrics, cstatus>>
bvars == <<bpc, iteration, messages, bresponse, bhist, btools, bresult, braised>>
lvars == <<lpc, lreply, lresult, lstatus>>
nvars == <<bvars, lvars>>
ovars == <<cvars, nvars>>
vars == <<xvars, rvars, mvars, avars, ovars>>

-----------------------------------------------------------------------------
(* Characters and strings                                                  *)

Char(s, i) == SubSeq(s, i, i)

UpperAlpha == "ABCDEFGHIJKLMNOPQRSTUVWXYZ"
LowerAlpha == "abcdefghijklmnopqrstuvwxyz"

\* str.lower() on one character (ASCII letters)
ToLowerChar(c) ==
    IF \E i \in 1..Len(UpperAlpha) : Char(UpperAlpha, i) = c
    THEN Char(LowerAlpha, CHOOSE i \in 1..Len(UpperAlpha) : Char(UpperAlpha, i) = c)
    ELSE c

RECURSIVE ToLower(_)
ToLower(s) ==
    IF Len(s) = 0 THEN ""
    ELSE ToLowerChar(Char(s, 1)) \o ToLower(SubSeq(s, 2, Len(s)))

\* the characters \s matches and str.strip() / str.split() treat as blank
IsSpace(c) == c \in {" ", "\t", "\n", "\r"}

RECURSIVE LStrip(_)
LStrip(s) ==
    IF Len(s) > 0 /\ IsSpace(Char(s, 1)) THEN LStrip(SubSeq(s, 2, Len(s))) ELSE s

RECURSIVE RStrip(_)
RStrip(s) ==
    IF Len(s) > 0 /\ IsSpace(Char(s, Len(s))) THEN RStrip(SubSeq(s, 1, Len(s) - 1)) ELSE s

\* str.strip()
Strip(s) == RStrip(LStrip(s))

\* p in s (substring test)
Contains(s, p) ==
    \E i \in 1..(Len(s) - Len(p) + 1) : SubSeq(s, i, i + Len(p) - 1) = p

StartsWith(s, p) == Len(s) >= Len(p) /\ SubSeq(s, 1, Len(p)) = p

\* len(s.split()): the number of maximal runs of non-blank characters
WordCount(s) ==
    Cardinality({i \in 1..Len(s) :
        /\ ~IsSpace(Char(s, i))
        /\ (i = 1 \/ IsSpace(Char(s, i - 1)))})

\* "\n".join(lines)
RECURSIVE Join(_)
Join(lines) ==
    IF Len(lines) = 0 THEN ""
    ELSE IF Len(lines) = 1 THEN lines[1]
    ELSE lines[1] \o "\n" \o Join(Tail(lines))

Rep(x, n) == [i \in 1..n |-> x]

-----------------------------------------------------------------------------
(* Lyric Extractor: _extract_lyrics                                        *)
(* A page is the parsed document, a sequence of elements in document       *)
(* order.  An element has the set of container selectors it matches (an    *)
(* index into common_selectors; the empty set for plain page text), a flag *)
(* for script/style/noscript and its text as raw lines.                    *)

\* common_selectors, in list order
CommonSelectors ==
    << "div.lyrics", ".song-lyrics", ".chord-chart", ".tab-content",
       ".song-text", ".lyrics-container", "[class*=lyric]",
       ".verse", ".chorus", ".bridge", "pre" >>

MinRawLines    == 10   \* if len(lines) >= 10
MinLyricLines  == 8    \* if len(lyric_lines) >= 8
MinGroupLines  == 15   \* if len(current) >= 15
MaxWords       == 20   \* 1 < len(ln.split()) < 20

\* the character class [A-G#b/\s\d\(\)]
ChordChars ==
    {"A", "B", "C", "D", "E", "F", "G", "#", "b", "/", "(", ")",
     "0", "1", "2", "3", "4", "5", "6", "7", "8", "9"}

\* re.match(r'^[A-G#b/\s\d\(\)]+$', line) on a stripped line
IsChordOnly(line) ==
    /\ Len(line) >= 1
    /\ \A i \in 1..Len(line) : Char(line, i) \in ChordChars \/ IsSpace(Char(line, i))

\* the alternatives of r"copyright.*|all rights reserved.*"
NoticePatterns == <<"copyright", "all rights reserved">>

\* (mutant) the match without flags=re.I
NoticeMatchCaseSensitive(line, i) ==
    \E k \in 1..Len(NoticePatterns) :
        /\ i + Len(NoticePatterns[k]) - 1 <= Len(line)
        /\ SubSeq(line, i, i + Len(NoticePatterns[k]) - 1) = NoticePatterns[k]

\* whether a pattern matches at position i; flags=re.I folds the case
NoticeMatch(line, i) ==
    \E k \in 1..Len(NoticePatterns) :
        /\ i + Len(NoticePatterns[k]) - 1 <= Len(line)
        /\ ToLower(SubSeq(line, i, i + Len(NoticePatterns[k]) - 1)) = NoticePatterns[k]

\* re.sub(r"copyright.*|all rights reserved.*", "", line, flags=re.I) on one
\* line: "." does not match a line break, so a match runs from its start to
\* the end of its line and the substitution on the joined text is the
\* substitution on each line.
TrimNotice(line) ==
    IF \E i \in 1..Len(line) : NoticeMatch(line, i)
    THEN LET first == CHOOSE i \in 1..Len(line) :
                        /\ NoticeMatch(line, i)
                        /\ \A j \in 1..(i - 1) : ~NoticeMatch(line, j)
         IN SubSeq(line, 1, first - 1)
    ELSE line

\* The lines of the pages the model runs the extractor on.
ChordAm    == "C  F  G  Am"
ChordPlain == "D/F#  G  A7"
Prose      == "Amazing grace how sweet the sound"
Short      == "Oh Lord"
Single     == "Chorus"
Indented   == "   Was blind but now I see  "
Blank      == "   "
Notice1    == "Copyright 2020 XYZ Music"
Notice2    == "ALL RIGHTS RESERVED by XYZ Music"
Embedded   == "Freed from the copyright of sin"
Nine       == "Oh my God"
Ten        == "Oh my Lord"
LongLine   == "one two three four five six seven eight nine ten one two three four five six seven eight nine ten"


Tagged == "[Sample lyrics for demonstration]"

RawLines ==
    {ChordAm, ChordPlain, Prose, Short, Single, Indented, Blank,
     Notice1, Notice2, Embedded, Nine, Ten, LongLine, Tagged}

\* the per-line results, computed once for every line of RawLines
StripOf     == [l \in RawLines |-> Strip(l)]
Stripped    == {StripOf[l] : l \in RawLines}
ChordOnlyOf == [l \in Stripped |-> IsChordOnly(l)]
WordCountOf == [l \in Stripped |-> WordCount(l)]
TrimOf      == [l \in Stripped |-> TrimNotice(l)]

SubNotice(lines) == [i \in 1..Len(lines) |-> TrimOf[lines[i]]]

\* [ln.strip() for ln in text.splitlines() if ln.strip()]
TrimmedLines(raw) ==
    LET stripped == [i \in 1..Len(raw) |-> StripOf[raw[i]]]
    IN SelectSeq(stripped, LAMBDA ln : ln # "")

\* (mutant) the word test off by one: more than two words
IsLyricLineThreeWords(line) == ~ChordOnlyOf[line] /\ WordCountOf[line] > 2

\* not re.match(...) and len(line.split()) > 1
IsLyricLine(line) == ~ChordOnlyOf[line] /\ WordCountOf[line] > 1

LyricLines(lines) == SelectSeq(lines, IsLyricLine)

\* for tag in soup(["script", "style", "noscript"]): tag.decompose()
Decompose(pg) == SelectSeq(pg, LAMBDA el : ~el.script)

\* (mutant) the structured pass without the floor on the raw lines
QualifiesNoFloor(el) ==
    Len(LyricLines(TrimmedLines(el.raw))) >= MinLyricLines

\* whether the element passes both thresholds of the structured pass
Qualifies(el) ==
    LET lines == TrimmedLines(el.raw)
    IN /\ Len(lines) >= MinRawLines
       /\ Len(LyricLines(lines)) >= MinLyricLines

\* (mutant) the containers visited in document order, whatever the selector
VisitDocumentOrder(soup, s, e) ==
    IF s > 1 THEN <<>>
    ELSE SelectSeq([k \in 1..Len(soup) |-> k], LAMBDA k : k >= e /\ soup[k].sels # {})

\* the (selector, element) pairs in the order the two nested loops visit them
RECURSIVE VisitFrom(_, _, _)
VisitFrom(soup, s, e) ==
    IF s > Len(CommonSelectors) THEN <<>>
    ELSE IF e > Len(soup) THEN VisitFrom(soup, s + 1, 1)
    ELSE IF s \in soup[e].sels THEN <<e>> \o VisitFrom(soup, s, e + 1)
    ELSE VisitFrom(soup, s, e + 1)

VisitOrder(soup) == VisitFrom(soup, 1, 1)

None == [found |-> FALSE, text |-> "", pass |-> "none"]
Some(t, p) == [found |-> TRUE, text |-> t, pass |-> p]

\* the text the structured pass returns for an element that qualifies
StructuredText(el) ==
    Strip(Join(SubNotice(LyricLines(TrimmedLines(el.raw)))))

\* the element at which the nested loops return: the first in visit order
\* that qualifies (an index into the decomposed page), 0 when none does
AcceptedElement(pg) ==
    LET soup  == Decompose(pg)
        order == VisitOrder(soup)
        hits  == {k \in 1..Len(order) : Qualifies(soup[order[k]])}
    IN IF hits = {} THEN 0
       ELSE order[CHOOSE k \in hits : \A j \in hits : k <= j]

\* the structured pass: the text of the accepted element, or no return
\* (found = FALSE, control falls through)
StructuredPass(pg) ==
    IF AcceptedElement(pg) = 0 THEN None
    ELSE Some(StructuredText(Decompose(pg)[AcceptedElement(pg)]), "structured")

\* soup.get_text("\n") of the whole document, as trimmed non-blank lines
RECURSIVE AllRaw(_)
AllRaw(soup) ==
    IF Len(soup) = 0 THEN <<>> ELSE soup[1].raw \o AllRaw(Tail(soup))

PageLines(pg) == TrimmedLines(AllRaw(Decompose(pg)))

\* the grouping loop of the fallback pass from line i on; a group is kept
\* as its lines, the source keeps "\n".join(current)
RECURSIVE GroupLoop(_, _, _, _)
GroupLoop(lines, i, current, groups) ==
    IF i > Len(lines)
    THEN IF Len(current) >= MinGroupLines
         THEN Append(groups, current) ELSE groups
    ELSE IF ChordOnlyOf[lines[i]]
    THEN GroupLoop(lines, i + 1, current, groups)
    ELSE IF 1 < WordCountOf[lines[i]] /\ WordCountOf[lines[i]] < MaxWords
    THEN GroupLoop(lines, i + 1, Append(current, lines[i]), groups)
    ELSE GroupLoop(lines, i + 1, <<>>,
                   IF Len(current) >= MinGroupLines
                   THEN Append(groups, current) ELSE groups)

\* max(groups, key=len): the first group of the greatest joined length
LongestGroup(groups) ==
    LET best == CHOOSE k \in 1..Len(groups) :
                  /\ \A j \in 1..Len(groups) : Len(Join(groups[j])) <= Len(Join(groups[k]))
                  /\ \A j \in 1..(k - 1) : Len(Join(groups[j])) < Len(Join(groups[k]))
    IN groups[best]

\* lyrics.strip() or None
OrNone(t, p) == IF t = "" THEN None ELSE Some(t, p)

\* the fallback pass over the whole page
FallbackPass(pg) ==
    LET groups == GroupLoop(PageLines(pg), 1, <<>>, <<>>)
    IN IF Len(groups) = 0 THEN None
       ELSE OrNone(Strip(Join(SubNotice(LongestGroup(groups)))), "fallback")

\* _extract_lyrics(html)
ExtractLyrics(pg) ==
    LET s == StructuredPass(pg)
    IN IF s.found THEN s ELSE FallbackPass(pg)

\* Python truthiness of an Optional[str]: neither None nor ""
Truthy(r) == r.found /\ r.text # ""

-----------------------------------------------------------------------------
(* Pages the extractor is run on                                           *)

MaxPad  == 1   \* a block has a base count of lines plus 0..MaxPad more
MaxSide == 1   \* elements of a page beside its main element

BaseCounts == {MinLyricLines - 1, MinRawLines - 1, MinGroupLines - 1}
Counts     == {b + p : b \in BaseCounts, p \in 0..MaxPad}

Heads  == {<<>>, Rep(ChordAm, 12), Rep(ChordPlain, 12)}
Bodies == {Rep(l, n) : l \in {Prose, Short, Notice1}, n \in Counts}
Tails  == {<<>>, <<Notice1>>, <<Notice2>>, <<LongLine, Single, Embedded>>}

MainElements ==
    {[sels |-> s, script |-> FALSE, raw |-> h \o b \o t] :
        s \in {{}, {11}}, h \in Heads, b \in Bodies, t \in Tails}

SideElements ==
    { [sels |-> {},  script |-> FALSE, raw |-> Rep(Indented, MinRawLines - 1)],
      [sels |-> {8}, script |-> FALSE, raw |-> <<Blank>> \o Rep(Short, MinRawLines)] }

LastElements ==
    { [sels |-> {},     script |-> TRUE,  raw |-> Rep(Prose, MinGroupLines)],
      [sels |-> {1, 7}, script |-> FALSE, raw |-> Rep(Prose, MinRawLines)] }

RECURSIVE SeqsUpTo(_, _)
SeqsUpTo(S, n) ==
    IF n = 0 THEN {<<>>}
    ELSE LET shorter == SeqsUpTo(S, n - 1)
         IN shorter \cup {Append(q, x) : q \in shorter, x \in S}

Pages ==
    {before \o <<m>> \o after :
        m \in MainElements,
        before \in SeqsUpTo(SideElements, MaxSide),
        after \in {<<>>} \cup {<<e>> : e \in LastElements}}

ExtractorIdle == page = <<>> /\ xpc = "idle" /\ xresult = None

NoResp == [kind |-> "none", status |-> 0, page |-> <<>>, links |-> <<>>]
NoResult == [kind |-> "none", text |-> ""]

RetrievalIdle ==
    /\ title = "" /\ artist = <<>> /\ rpc = "idle" /\ ridx = 0 /\ urls = <<>>
    /\ rlog = <<>> /\ lastResp = NoResp /\ racceptable = FALSE
    /\ rresult = NoResult /\ rraised = FALSE

McpIdle ==
    /\ max_results = 0 /\ mpc = "idle" /\ mq = 0 /\ all_results = <<>>
    /\ unique_results = <<>> /\ client = "none" /\ mfetched = <<>>
    /\ mqlog = <<>> /\ mlast = NoResp /\ mok = <<>>
    /\ mresult = None /\ mraised = FALSE

NoRecord == [title |-> ""]

AnalyzerIdle ==
    /\ atitle = "" /\ aartist = <<>> /\ alyrics = "" /\ apc = "idle"
    /\ aoutcome = "none" /\ aresponse = <<>> /\ arecord = NoRecord
    /\ abranch = "none" /\ araised = FALSE

MainIdle == cpc = "idle" /\ cjson = FALSE /\ clyrics = NoResult /\ cstatus = -1

BridgeIdle ==
    /\ bpc = "idle" /\ iteration = 0 /\ messages = <<>> /\ bresponse = ""
    /\ bhist = <<>> /\ btools = 0 /\ bresult = NoResult /\ braised = FALSE

LabelsIdle == lpc = "idle" /\ lreply = "" /\ lresult = NoResult /\ lstatus = -1

OthersIdle == MainIdle /\ BridgeIdle /\ LabelsIdle

\* the structured pass returns, or falls through to the fallback pass
ExtractStructured ==
    /\ xpc = "structured"
    /\ LET s == StructuredPass(page)
       IN IF s.found
          THEN xpc' = "done" /\ xresult' = s
          ELSE xpc' = "fallback" /\ xresult' = xresult
    /\ UNCHANGED <<page, rvars, mvars, avars, ovars>>

\* the fallback pass returns
ExtractFallback ==
    /\ xpc = "fallback"
    /\ xpc' = "done"
    /\ xresult' = FallbackPass(page)
    /\ UNCHANGED <<page, rvars, mvars, avars, ovars>>

InitExtract ==
    /\ page \in Pages /\ xpc = "structured" /\ xresult = None
    /\ RetrievalIdle /\ McpIdle /\ AnalyzerIdle /\ OthersIdle
NextExtract == ExtractStructured \/ ExtractFallback
SpecExtract == InitExtract /\ [][NextExtract]_vars

-----------------------------------------------------------------------------
(* Properties of the Lyric Extractor (under SpecExtract)                   *)

\* the rights notices of the specification, stated on a line
BeginsWithNotice(line) ==
    \/ StartsWith(ToLower(line), "copyright")
    \/ StartsWith(ToLower(line), "all rights reserved")
HoldsNotice(line) ==
    \/ Contains(ToLower(line), "copyright")
    \/ Contains(ToLower(line), "all rights reserved")

\* a chord line in the sense of the specification's example "C  F  G  Am":
\* every word is a chord symbol (root, accidental, minor mark, digits, bass)
IsChordSymbolLine(line) ==
    /\ Len(line) >= 1
    /\ \A i \in 1..Len(line) :
          Char(line, i) \in ChordChars \cup {"m"} \/ IsSpace(Char(line, i))

\* the containers of the page, scripts removed
Containers(pg) == {i \in 1..Len(Decompose(pg)) : Decompose(pg)[i].sels # {}}
ContainerLines(pg, i) == TrimmedLines(Decompose(pg)[i].raw)

\* the block the extractor accepted, before the copyright trim
AcceptedBlock(pg, pass) ==
    IF pass = "structured"
    THEN LyricLines(ContainerLines(pg, AcceptedElement(pg)))
    ELSE LongestGroup(GroupLoop(PageLines(pg), 1, <<>>, <<>>))

\* the 20-line block of the specification: 12 chord lines, 8 prose lines
ChordBlockPage ==
    << [sels |-> {11}, script |-> FALSE, raw |-> Rep(ChordAm, 12) \o Rep(Prose, 8)] >>

\* C5 (as claimed): the block of 12 chord lines "C  F  G  Am" and 8 prose
\* lines is accepted with exactly the 8 prose lines, and no chord line of an
\* accepted block is part of the returned text.
C5_ChordLinesDropped ==
    xpc = "done" =>
        /\ page = ChordBlockPage =>
              xresult = Some(Join(Rep(Prose, 8)), "structured")
        /\ xresult.pass = "structured" =>
              \A k \in 1..Len(ContainerLines(page, AcceptedElement(page))) :
                 LET line == ContainerLines(page, AcceptedElement(page))[k]
                 IN IsChordSymbolLine(line) => ~Contains(xresult.text, line)

\* C6: a container with fewer than 10 trimmed non-blank lines is never the
\* block the structured pass returns, and when no container passes both
\* thresholds the result is the fallback pass over the whole page.
C6_ShortBlockFallsThrough ==
    xpc = "done" =>
        /\ xresult.pass = "structured" =>
              /\ AcceptedElement(page) \in Containers(page)
              /\ Len(ContainerLines(page, AcceptedElement(page))) >= 10
        /\ (\A i \in Containers(page) :
               \/ Len(ContainerLines(page, i)) < 10
               \/ Len(LyricLines(ContainerLines(page, i))) < 8)
             => xresult = FallbackPass(page)

\* C6 witness: a container of 9 lines, all lyric lines, was passed over and
\* the fallback pass produced the result
C6_Witness ==
    /\ xpc = "done"
    /\ \E i \in Containers(page) :
          /\ Len(ContainerLines(page, i)) = 9
          /\ Len(LyricLines(ContainerLines(page, i))) = 9
    /\ xresult.found /\ xresult.pass = "fallback"

\* the accepted block is lyric lines free of notices followed by one line
\* that begins with a rights notice
EndsWithNotice(block) ==
    /\ Len(block) >= 2
    /\ BeginsWithNotice(block[Len(block)])
    /\ \A k \in 1..(Len(block) - 1) : ~HoldsNotice(block[k])

\* C7: in both passes, when the accepted block ends with a rights notice
\* line after valid lyric lines, the returned text is the preceding lines
\* joined by newlines and holds no notice.
C7_TrailingNoticeStripped ==
    (xpc = "done" /\ xresult.pass \in {"structured", "fallback"}) =>
        LET block == AcceptedBlock(page, xresult.pass)
        IN EndsWithNotice(block) =>
              /\ xresult.found
              /\ xresult.text = Join(SubSeq(block, 1, Len(block) - 1))

\* C7 witness: the structured pass accepted a block ending with a notice
C7_Witness ==
    /\ xpc = "done"
    /\ xresult.pass = "structured"
    /\ EndsWithNotice(AcceptedBlock(page, "structured"))

\* C8 (as claimed): the extractor never returns the empty string
C8_NeverEmptyString ==
    xpc = "done" => ~(xresult.found /\ xresult.text = "")

-----------------------------------------------------------------------------
(* Fallback Provider: LyricsClient._get_sample_lyrics                      *)

\* str.split(): the blank-separated words
RECURSIVE Words(_)
Words(s) ==
    LET t == LStrip(s)
    IN IF t = "" THEN <<>>
       ELSE LET stops == {i \in 1..Len(t) : IsSpace(Char(t, i))}
                n == IF stops = {} THEN Len(t) + 1
                     ELSE CHOOSE i \in stops : \A j \in stops : i <= j
            IN <<SubSeq(t, 1, n - 1)>> \o Words(SubSeq(t, n, Len(t)))

\* the keys of samples, in insertion order, and their texts
SampleKeys == <<"amazing grace", "how great thou art", "blessed be your name">>
SampleTexts ==
    << "Amazing grace, how sweet the sound\nThat saved a wretch like me\nI once was lost, but now am found\nWas blind, but now I see\n\n'Twas grace that taught my heart to fear\nAnd grace my fears relieved\nHow precious did that grace appear\nThe hour I first believed",
       "O Lord my God, when I in awesome wonder\nConsider all the worlds Thy hands have made\nI see the stars, I hear the rolling thunder\nThy power throughout the universe displayed\n\nThen sings my soul, my Savior God to Thee\nHow great Thou art, how great Thou art\nThen sings my soul, my Savior God to Thee\nHow great Thou art, how great Thou art",
       "Blessed be Your name in the land that is plentiful\nWhere Your streams of abundance flow\nBlessed be Your name\nBlessed be Your name when I'm found in the desert place\nThough I walk through the wilderness\nBlessed be Your name" >>

\* key in title_key or any(word in title_key for word in key.split())
SampleMatches(key, title_key) ==
    \/ Contains(title_key, key)
    \/ \E k \in 1..Len(Words(key)) : Contains(title_key, Words(key)[k])

DefaultSample(t) ==
    "[Sample lyrics for '" \o t \o "' - network search unavailable]\n\nThis is a sample worship song for demonstration.\nThe analysis will work with any lyrics content.\nPlease check your internet connection for live lyrics search."

\* _get_sample_lyrics(title)
GetSampleLyrics(t) ==
    LET title_key == ToLower(t)
        hits == {k \in 1..Len(SampleKeys) : SampleMatches(SampleKeys[k], title_key)}
    IN IF hits = {} THEN DefaultSample(t)
       ELSE "[Sample lyrics for demonstration]\n\n"
              \o SampleTexts[CHOOSE k \in hits : \A j \in hits : k <= j]

-----------------------------------------------------------------------------
(* Query Builder: _get_direct_lyrics_urls and the query lists              *)

Digits == "0123456789"
IsAlnum(c) ==
    LET all == UpperAlpha \o LowerAlpha \o Digits
    IN \E i \in 1..Len(all) : Char(all, i) = c

\* re.sub(r'[^a-zA-Z0-9]', r, s)
RECURSIVE SubNonAlnum(_, _)
SubNonAlnum(s, r) ==
    IF Len(s) = 0 THEN ""
    ELSE (IF IsAlnum(Char(s, 1)) THEN Char(s, 1) ELSE r)
            \o SubNonAlnum(SubSeq(s, 2, Len(s)), r)

\* s.strip('-')
RECURSIVE StripDashes(_)
StripDashes(s) ==
    IF Len(s) > 0 /\ Char(s, 1) = "-" THEN StripDashes(SubSeq(s, 2, Len(s)))
    ELSE IF Len(s) > 0 /\ Char(s, Len(s)) = "-" THEN StripDashes(SubSeq(s, 1, Len(s) - 1))
    ELSE s

\* _get_direct_lyrics_urls(title, artist)
GetDirectLyricsUrls(t, a) ==
    LET artist_slug  == StripDashes(SubNonAlnum(ToLower(a), "-"))
        title_slug   == StripDashes(SubNonAlnum(ToLower(t), "-"))
        artist_clean == SubNonAlnum(ToLower(a), "")
        title_clean  == SubNonAlnum(ToLower(t), "")
    IN << "https://hymnary.org/text/" \o title_slug,
          "https://www.worshiptogether.com/songs/" \o title_slug \o "-" \o artist_slug \o "/",
          "https://www.christianlyrics.com/" \o artist_slug \o "/" \o title_slug \o ".html",
          "https://www.lyrics.com/lyrics/" \o artist_slug \o "/" \o title_slug,
          "https://www.songlyrics.com/" \o artist_slug \o "/" \o title_slug \o "-lyrics/",
          "https://www.azlyrics.com/lyrics/" \o artist_clean \o "/" \o title_clean \o ".html" >>

\* Python truthiness of the Optional[str] artist, and (artist or '')
ArtistGiven(a) == a # <<>> /\ a[1] # ""
ArtistOr(a) == IF ArtistGiven(a) THEN a[1] ELSE ""

\* base_query = f"{title} {artist or ''}".strip()
BaseQuery(t, a) == Strip(t \o " " \o ArtistOr(a))

\* the queries of _search_genius
GeniusQueries(t, a) ==
    << BaseQuery(t, a) \o " worship song lyrics",
       BaseQuery(t, a) \o " Christian song lyrics",
       BaseQuery(t, a) \o " hymn lyrics",
       BaseQuery(t, a) >>

\* the queries of _search_google_lyrics
GoogleQueries(t, a) ==
    << BaseQuery(t, a) \o " worship song lyrics",
       BaseQuery(t, a) \o " Christian hymn lyrics",
       BaseQuery(t, a) \o " gospel song lyrics",
       BaseQuery(t, a) \o " church song lyrics",
       BaseQuery(t, a) \o " lyrics" >>

-----------------------------------------------------------------------------
(* Search Executor of LyricsClient: _search_genius, _search_google_lyrics  *)

LinkCap   == 5     \* links[:5], lyrics_urls[:5]
FetchCap  == 3     \* genius_urls[:3], google_urls[:3]
MinLength == 100   \* len(lyrics) > 100

FirstN(seq, n) == SubSeq(seq, 1, IF Len(seq) < n THEN Len(seq) ELSE n)

EndsWith(s, p) == Len(s) >= Len(p) /\ SubSeq(s, Len(s) - Len(p) + 1, Len(s)) = p

\* re.compile(r'/.*-lyrics$').search(href)
MatchesGeniusLink(href) ==
    /\ EndsWith(href, "-lyrics")
    /\ \E i \in 1..(Len(href) - Len("-lyrics")) : Char(href, i) = "/"

\* [link['href'] for link in links[:5]] of the links find_all keeps
GeniusLinks(anchors) == FirstN(SelectSeq(anchors, MatchesGeniusLink), LinkCap)

SecularSites   == {"spotify", "apple", "youtube", "soundcloud", "bandcamp"}
ChristianSites == {"hymnary", "cyberhymnal", "worship", "christian", "gospel", "hymn"}

\* the condition under which _search_google_lyrics keeps a link
PassesLinkFilter(href) ==
    /\ Contains(ToLower(href), "lyrics")
    /\ ~Contains(href, "google")
    /\ StartsWith(href, "http")
    /\ ~\E site \in SecularSites : Contains(ToLower(href), site)

IsChristianSite(href) == \E site \in ChristianSites : Contains(ToLower(href), site)

\* the loop over the links: insert(0, href) for a Christian site, append otherwise
RECURSIVE CollectLinks(_, _, _)
CollectLinks(links, i, lyrics_urls) ==
    IF i > Len(links) THEN lyrics_urls
    ELSE IF ~PassesLinkFilter(links[i]) THEN CollectLinks(links, i + 1, lyrics_urls)
    ELSE IF IsChristianSite(links[i])
    THEN CollectLinks(links, i + 1, <<links[i]>> \o lyrics_urls)
    ELSE CollectLinks(links, i + 1, Append(lyrics_urls, links[i]))

\* lyrics_urls[:5] of one result page
GoogleLinks(anchors) == FirstN(CollectLinks(anchors, 1, <<>>), LinkCap)

-----------------------------------------------------------------------------
(* Content Fetcher and Retrieval Orchestrator:                             *)
(* LyricsClient._fetch_lyrics_from_url and LyricsClient.get_lyrics         *)

\* What the HTTP collaborator does on one request: it raises ("timeout",
\* "connect_error"), or answers with a status and a body; "bad_body" is an
\* answer whose body makes the parser raise.
Resp(k, st, pg, ln) == [kind |-> k, status |-> st, page |-> pg, links |-> ln]

PageNone  == << [sels |-> {},   script |-> FALSE, raw |-> Rep(Prose, MinRawLines - 1)] >>
PageEmpty == << [sels |-> {11}, script |-> FALSE, raw |-> Rep(Notice1, MinRawLines)] >>
PageShort == << [sels |-> {11}, script |-> FALSE, raw |-> Rep(Short, MinRawLines)] >>
Page100   == << [sels |-> {11}, script |-> FALSE, raw |-> Rep(Nine, 9) \o <<Ten>>] >>
Page101   == << [sels |-> {11}, script |-> FALSE, raw |-> Rep(Nine, 8) \o <<Ten, Ten>>] >>
PageLong  == << [sels |-> {},   script |-> FALSE, raw |-> Rep(Prose, MinGroupLines) \o <<Notice1>>] >>

\* pages holding one preformatted block of 12 short multi-word lines
Page12Short    == << [sels |-> {11}, script |-> FALSE, raw |-> Rep(Short, 12)] >>
Page12Mixed    == << [sels |-> {11}, script |-> FALSE, raw |-> Rep(Prose, 11) \o <<Short>>] >>
Page12Embedded == << [sels |-> {11}, script |-> FALSE, raw |-> Rep(Prose, 11) \o <<Embedded>>] >>

\* a page that quotes the first line of a sample payload above its lyrics
PageTagged == << [sels |-> {11}, script |-> FALSE, raw |-> <<Tagged>> \o Rep(Prose, 10)] >>

FetchPages ==
    {PageNone, PageEmpty, PageShort, Page100, Page101, PageLong,
     Page12Short, Page12Mixed, Page12Embedded, PageTagged}

FetchOutcomes ==
    {Resp("timeout", 0, <<>>, <<>>), Resp("connect_error", 0, <<>>, <<>>),
     Resp("bad_body", 200, <<>>, <<>>),
     Resp("response", 404, PageLong, <<>>), Resp("response", 201, PageLong, <<>>)}
    \cup {Resp("response", 200, pg, <<>>) : pg \in FetchPages}

\* the anchors (href values) of the result pages of the two searches
GeniusResultPages ==
    { <<>>,
      <<"/artists/John-newton", "https://genius.com/about">>,
      <<"/John-newton-amazing-grace-lyrics">>,
      <<"https://genius.com/a-lyrics", "/b-lyrics", "/albums/x", "/c-lyrics",
        "https://www.songlyrics.com/john-newton/amazing-grace-lyrics",
        "/b-lyrics", "/e-lyrics", "/f-lyrics">> }

GoogleResultPages ==
    { <<>>,
      <<"/search?q=lyrics", "https://www.google.com/lyrics", "https://open.spotify.com/lyrics/1">>,
      <<"https://www.azlyrics.com/lyrics/x.html">>,
      <<"https://www.lyrics.com/lyrics/john-newton/amazing-grace",
        "https://hymnary.org/text/amazing-grace?lyrics",
        "https://www.youtube.com/lyrics",
        "https://gospel.example/Lyrics/2",
        "https://www.lyrics.com/lyrics/john-newton/amazing-grace",
        "https://genius.com/a-lyrics",
        "https://songs.example/lyrics/3">> }

SearchOutcomes(pages) ==
    {Resp("timeout", 0, <<>>, <<>>), Resp("bad_body", 200, <<>>, <<>>),
     Resp("response", 429, <<>>, <<>>)}
    \cup {Resp("response", 200, <<>>, ln) : ln \in pages}

\* the result lists, computed once for every result page
GeniusLinksOf == [ln \in GeniusResultPages |-> GeniusLinks(ln)]
GoogleLinksOf == [ln \in GoogleResultPages |-> GoogleLinks(ln)]
ExtractOf     == [pg \in FetchPages |-> ExtractLyrics(pg)]

\* what a function hands back: a value, or an exception that leaves it
Returns(v) == [raised |-> FALSE, value |-> v]
Raises     == [raised |-> TRUE, value |-> None]

\* (mutant) _fetch_lyrics_from_url without its try/except
FetchLyricsFromUrlUncaught(o) ==
    IF o.kind \in {"timeout", "connect_error", "bad_body"} THEN Raises
    ELSE IF o.status # 200 THEN Returns(None)
    ELSE LET lyrics == ExtractOf[o.page]
         IN IF Truthy(lyrics) /\ Len(lyrics.text) > MinLength
            THEN Returns(lyrics) ELSE Returns(None)

\* (mutant) _fetch_lyrics_from_url without the test of the status
FetchLyricsFromUrlAnyStatus(o) ==
    IF o.kind \in {"timeout", "connect_error"} THEN Returns(None)
    ELSE IF o.kind = "bad_body" THEN Returns(None)
    ELSE LET lyrics == ExtractOf[o.page]
         IN IF Truthy(lyrics) /\ Len(lyrics.text) > MinLength
            THEN Returns(lyrics) ELSE Returns(None)

\* _fetch_lyrics_from_url(url) when the collaborator does o: every exception
\* of the request or of the extraction is caught (except Exception: pass)
FetchLyricsFromUrl(o) ==
    IF o.kind \in {"timeout", "connect_error"} THEN Returns(None)
    ELSE IF o.status # 200 THEN Returns(None)
    ELSE IF o.kind = "bad_body" THEN Returns(None)
    ELSE LET lyrics == ExtractOf[o.page]
         IN IF Truthy(lyrics) /\ Len(lyrics.text) > MinLength
            THEN Returns(lyrics) ELSE Returns(None)

\* one iteration of a query loop of _search_genius / _search_google_lyrics:
\* the list returned, or <<>> to go on with the next query
SearchLinks(o, linksOf) ==
    IF o.kind \in {"timeout", "connect_error", "bad_body"} THEN <<>>
    ELSE IF o.status # 200 THEN <<>>
    ELSE linksOf[o.links]

\* full_url = f"https://genius.com{url}" if not url.startswith('http') else url
FullUrl(url) == IF ~StartsWith(url, "http") THEN "https://genius.com" \o url ELSE url

Request(stage, kind, target) == [stage |-> stage, kind |-> kind, target |-> target]

\* the fetch answered 200 with a page whose extraction is longer than 100
Acceptable(o) ==
    /\ o.kind = "response" /\ o.status = 200
    /\ ExtractOf[o.page].found /\ Len(ExtractOf[o.page].text) > 100

Live(t) == [kind |-> "live", text |-> t]

\* one iteration of a fetch loop: fetch urls[ridx]; on a truthy result
\* return it, else go on with the next URL or leave the loop for `after`
FetchStep(stage, url, last, after) ==
    \E o \in FetchOutcomes :
        LET r == FetchLyricsFromUrl(o)
        IN /\ rlog' = Append(rlog, Request(stage, "fetch", url))
           /\ lastResp' = o
           /\ racceptable' = (racceptable \/ Acceptable(o))
           /\ IF r.raised
              THEN /\ rraised' = TRUE /\ rpc' = "done"
                   /\ UNCHANGED <<ridx, rresult>>
              ELSE IF Truthy(r.value)
              THEN /\ rresult' = Live(r.value.text) /\ rpc' = "done"
                   /\ UNCHANGED <<ridx, rraised>>
              ELSE IF ridx < last
              THEN /\ ridx' = ridx + 1
                   /\ UNCHANGED <<rpc, rresult, rraised>>
              ELSE /\ rpc' = after /\ ridx' = 1
                   /\ UNCHANGED <<rresult, rraised>>
           /\ UNCHANGED <<title, artist, urls, xvars, mvars, avars, ovars>>

\* (mutant) the query loop with break in place of continue: an exception
\* of the request ends the search with the empty list
SearchStepBreak(stage, queries, pages, linksOf, fetch, after) ==
    \E o \in SearchOutcomes(pages) :
        LET found == SearchLinks(o, linksOf)
        IN /\ rlog' = Append(rlog, Request(stage, "search", queries[ridx]))
           /\ lastResp' = o
           /\ IF Len(found) > 0
              THEN urls' = found /\ rpc' = fetch /\ ridx' = 1
              ELSE IF ridx < Len(queries) /\ o.kind = "response"
              THEN ridx' = ridx + 1 /\ UNCHANGED <<urls, rpc>>
              ELSE urls' = <<>> /\ rpc' = after /\ ridx' = 1
           /\ UNCHANGED <<title, artist, racceptable, rresult, rraised, xvars, mvars, avars, ovars>>

\* one iteration of a query loop: search with queries[ridx]; a non-empty
\* list ends the search and starts the fetch loop `fetch` over it; after the
\* last query the search returns [] and the fetch loop is empty
SearchStep(stage, queries, pages, linksOf, fetch, after) ==
    \E o \in SearchOutcomes(pages) :
        LET found == SearchLinks(o, linksOf)
        IN /\ rlog' = Append(rlog, Request(stage, "search", queries[ridx]))
           /\ lastResp' = o
           /\ IF Len(found) > 0
              THEN urls' = found /\ rpc' = fetch /\ ridx' = 1
              ELSE IF ridx < Len(queries)
              THEN ridx' = ridx + 1 /\ UNCHANGED <<urls, rpc>>
              ELSE urls' = <<>> /\ rpc' = after /\ ridx' = 1
           /\ UNCHANGED <<title, artist, racceptable, rresult, rraised, xvars, mvars, avars, ovars>>

\* (mutant) Method 1 without the test of the artist
GetLyricsStartAlwaysDirect ==
    /\ rpc = "start"
    /\ urls' = GetDirectLyricsUrls(title, ArtistOr(artist)) /\ rpc' = "direct"
    /\ ridx' = 1
    /\ UNCHANGED <<title, artist, rlog, lastResp, racceptable, rresult, rraised, xvars,
                   mvars, avars, ovars>>

\* if artist: direct_urls = self._get_direct_lyrics_urls(title, artist)
GetLyricsStart ==
    /\ rpc = "start"
    /\ IF ArtistGiven(artist)
       THEN urls' = GetDirectLyricsUrls(title, artist[1]) /\ rpc' = "direct"
       ELSE urls' = <<>> /\ rpc' = "genius_search"
    /\ ridx' = 1
    /\ UNCHANGED <<title, artist, rlog, lastResp, racceptable, rresult, rraised, xvars,
                   mvars, avars, ovars>>

\* Method 1: for url in direct_urls
DirectFetch ==
    /\ rpc = "direct"
    /\ FetchStep("direct", urls[ridx], Len(urls), "genius_search")

\* Method 2: genius_urls = self._search_genius(title, artist)
GeniusSearch ==
    /\ rpc = "genius_search"
    /\ SearchStep("genius", GeniusQueries(title, artist), GeniusResultPages,
                  GeniusLinksOf, "genius_fetch", "google_search")

\* for url in genius_urls[:3]
GeniusFetch ==
    /\ rpc = "genius_fetch"
    /\ FetchStep("genius", FullUrl(urls[ridx]), Len(FirstN(urls, FetchCap)),
                 "google_search")

\* Method 3: google_urls = self._search_google_lyrics(title, artist)
GoogleSearch ==
    /\ rpc = "google_search"
    /\ SearchStep("google", GoogleQueries(title, artist), GoogleResultPages,
                  GoogleLinksOf, "google_fetch", "fallback")

\* for url in google_urls[:3]
GoogleFetch ==
    /\ rpc = "google_fetch"
    /\ FetchStep("google", urls[ridx], Len(FirstN(urls, FetchCap)), "fallback")

\* (mutant) the sentinel of the MCP server instead of the sample
ReturnNotFound ==
    /\ rpc = "fallback"
    /\ rresult' = [kind |-> "fallback", text |-> "Lyrics not found."]
    /\ rpc' = "done"
    /\ UNCHANGED <<title, artist, ridx, urls, rlog, lastResp, racceptable, rraised, xvars,
                   mvars, avars, ovars>>

\* return self._get_sample_lyrics(title)
ReturnSample ==
    /\ rpc = "fallback"
    /\ rresult' = [kind |-> "fallback", text |-> GetSampleLyrics(title)]
    /\ rpc' = "done"
    /\ UNCHANGED <<title, artist, ridx, urls, rlog, lastResp, racceptable, rraised, xvars,
                   mvars, avars, ovars>>

Titles  == {"Amazing Grace", "How Great Thou Art!", "My Heart", "El Shaddai"}
Artists == {<<>>, <<"">>, <<"John Newton">>}

Init ==
    /\ title \in Titles /\ artist \in Artists
    /\ rpc = "start" /\ ridx = 0 /\ urls = <<>> /\ rlog = <<>>
    /\ lastResp = NoResp /\ racceptable = FALSE
    /\ rresult = NoResult /\ rraised = FALSE
    /\ ExtractorIdle /\ McpIdle /\ AnalyzerIdle /\ OthersIdle

Next ==
    \/ GetLyricsStart
    \/ DirectFetch
    \/ GeniusSearch
    \/ GeniusFetch
    \/ GoogleSearch
    \/ GoogleFetch
    \/ ReturnSample

Spec == Init /\ [][Next]_vars

-----------------------------------------------------------------------------
(* Properties of the Retrieval Orchestrator (under Spec)                   *)

\* the most requests one invocation can issue: 6 direct fetches, 4 and 5
\* search queries, 3 fetches after each search
MostRequests == 6 + 4 + FetchCap + 5 + FetchCap

\* get_lyrics is at a statement it can execute: a loop is at a position
\* inside its list
InsideLoop ==
    \/ rpc \in {"start", "fallback"}
    \/ rpc \in {"direct", "genius_fetch", "google_fetch"} /\ ridx \in 1..Len(urls)
    \/ rpc = "genius_search" /\ ridx \in 1..Len(GeniusQueries(title, artist))
    \/ rpc = "google_search" /\ ridx \in 1..Len(GoogleQueries(title, artist))

\* C1: for every title, artist and behaviour of the collaborators,
\* get_lyrics ends without raising (it never raises, it can always take a
\* step until it has returned, and it issues a bounded number of requests)
\* and returns either the text extracted from a page answered with 200, at
\* least 100 characters long, or the marked fallback payload.
C1_ReturnsTextOrFallback ==
    /\ ~rraised
    /\ Len(rlog) <= MostRequests
    /\ rpc # "done" => InsideLoop
    /\ rpc = "done" =>
          \/ /\ rresult.kind = "live"
             /\ lastResp.kind = "response" /\ lastResp.status = 200
             /\ rresult.text = ExtractLyrics(lastResp.page).text
             /\ Len(rresult.text) >= 100
          \/ /\ rresult.kind = "fallback"
             /\ StartsWith(rresult.text, "[Sample lyrics")

\* C1 witness: after failed requests a page with an extraction of 101
\* characters was returned
C1_Witness ==
    /\ rpc = "done" /\ rresult.kind = "live"
    /\ Len(rresult.text) = 101
    /\ \E i \in 1..Len(rlog) : rlog[i].kind = "search"

\* the place of a request in the cascade
Rank(q) ==
    CASE q.stage = "direct" -> 1
      [] q.stage = "genius" /\ q.kind = "search" -> 2
      [] q.stage = "genius" /\ q.kind = "fetch" -> 3
      [] q.stage = "google" /\ q.kind = "search" -> 4
      [] q.stage = "google" /\ q.kind = "fetch" -> 5

\* C2: the requests of one invocation follow the cascade order (direct
\* fetches, only with an artist and then first; dedicated search and its
\* fetches; general search and its fetches), and as soon as a fetched page
\* yields more than 100 characters that text is returned and no request
\* follows.
C2_CascadeOrder ==
    /\ \A i, j \in 1..Len(rlog) : i < j => Rank(rlog[i]) <= Rank(rlog[j])
    /\ \A i \in 1..Len(rlog) :
          rlog[i].stage = "direct" => rlog[i].kind = "fetch" /\ ArtistGiven(artist)
    /\ (ArtistGiven(artist) /\ Len(rlog) > 0) => rlog[1].stage = "direct"
    /\ racceptable =>
          /\ rpc = "done"
          /\ rlog[Len(rlog)].kind = "fetch"
          /\ lastResp.kind = "response" /\ lastResp.status = 200
          /\ rresult = Live(ExtractLyrics(lastResp.page).text)
    /\ rpc = "done" => ~ENABLED Next

\* C2 witness: the text came from a page of the general web search, after
\* fetches of the two earlier stages
C2_Witness ==
    /\ rpc = "done" /\ racceptable
    /\ rlog[Len(rlog)].stage = "google"
    /\ \E i \in 1..Len(rlog) : rlog[i].stage = "direct"
    /\ \E i \in 1..Len(rlog) : rlog[i].stage = "genius" /\ rlog[i].kind = "fetch"

\* C3: when no fetch of the cascade answered 200 with an extraction longer
\* than 100 characters, get_lyrics returns exactly the Fallback Provider's
\* payload for the title and does not raise.
C3_ExhaustedReturnsSample ==
    (rpc = "done" /\ ~racceptable) =>
        /\ ~rraised
        /\ rresult = [kind |-> "fallback", text |-> GetSampleLyrics(title)]
        /\ StartsWith(rresult.text, "[Sample lyrics")

\* C3 witness: all three stages fetched pages, the last one extracted to
\* exactly 100 characters, and the sample was returned
C3_Witness ==
    /\ rpc = "done" /\ ~racceptable /\ rresult.kind = "fallback"
    /\ lastResp = Resp("response", 200, Page100, <<>>)
    /\ \E i \in 1..Len(rlog) : rlog[i].stage = "direct"
    /\ \E i \in 1..Len(rlog) : rlog[i].stage = "genius" /\ rlog[i].kind = "fetch"
    /\ rlog[Len(rlog)].stage = "google" /\ rlog[Len(rlog)].kind = "fetch"

\* the last request of the log
LastRequest == rlog[Len(rlog)]

\* the page is one preformatted block of 12 short multi-word lines
TwelveLinePre(pg) ==
    /\ Len(pg) = 1 /\ 11 \in pg[1].sels /\ ~pg[1].script
    /\ Len(pg[1].raw) = 12
    /\ \A i \in 1..12 :
          /\ StripOf[pg[1].raw[i]] = pg[1].raw[i]
          /\ WordCountOf[pg[1].raw[i]] > 1 /\ WordCountOf[pg[1].raw[i]] < MaxWords

\* an artist was given, all 6 direct fetches failed, the dedicated search
\* yielded one URL and its page, just fetched, is such a block
DedicatedPageFetched ==
    /\ ArtistGiven(artist)
    /\ Len(rlog) > 0
    /\ LastRequest.stage = "genius" /\ LastRequest.kind = "fetch"
    /\ Len(SelectSeq(rlog, LAMBDA q : q.stage = "direct")) = 6
    /\ Len(urls) = 1
    /\ lastResp.kind = "response" /\ lastResp.status = 200
    /\ TwelveLinePre(lastResp.page)

\* C12 (as claimed): in that case the retrieval returns exactly the 12 lines
\* joined by newlines, for any such 12 lines.
C12_ReturnsTheTwelveLines ==
    DedicatedPageFetched =>
        /\ rpc = "done" /\ ~rraised
        /\ rresult = Live(Join(lastResp.page[1].raw))

\* C12 (amended): in that case, when no line is a chord line or holds a
\* rights notice and the joined text is longer than 100 characters, the
\* retrieval returns exactly the 12 lines joined by newlines.
C12_ReturnsLongProseLines ==
    (/\ DedicatedPageFetched
     /\ \A i \in 1..12 : /\ ~IsChordSymbolLine(lastResp.page[1].raw[i])
                         /\ ~HoldsNotice(lastResp.page[1].raw[i])
     /\ Len(Join(lastResp.page[1].raw)) > 100) =>
        /\ rpc = "done" /\ ~rraised
        /\ rresult = Live(Join(lastResp.page[1].raw))

\* C12 witness: "Amazing Grace" by "John Newton", the block of 11 prose
\* lines and one two-word line is returned
C12_Witness ==
    /\ DedicatedPageFetched
    /\ title = "Amazing Grace" /\ artist = <<"John Newton">>
    /\ lastResp.page = Page12Mixed
    /\ rpc = "done"
    /\ rresult = Live(Join(Rep(Prose, 11) \o <<Short>>))

-----------------------------------------------------------------------------
(* get_lyrics of the MCP server: query loop, dedup, fetch loop             *)

\* search_queries of get_lyrics
McpQueries(t, a) ==
    << Strip(t \o " " \o ArtistOr(a) \o " lyrics"),
       Strip(t \o " " \o ArtistOr(a) \o " chords lyrics"),
       Strip(t \o " " \o ArtistOr(a) \o " tabs"),
       Strip(t \o " " \o ArtistOr(a) \o " guitar chords") >>

NumQueries == 4   \* len(search_queries)

\* max_results // len(search_queries) + 1
PerQueryCap(n) == (n \div NumQueries) + 1

\* a search result: the keys "href" and "link" ("" when the key is missing or
\* empty), and its title
Result(h, l, t) == [href |-> h, link |-> l, title |-> t]

\* url = res.get("href") or res.get("link")
UrlOf(res) == IF res.href # "" THEN res.href ELSE res.link

UrlA == "https://hymnary.org/text/amazing-grace"
UrlB == "https://tabs.example/amazing-grace-chords"
UrlC == "https://www.lyrics.com/lyric/amazing-grace"
UrlD == "https://www.worshiptogether.com/songs/amazing-grace"
UrlE == "https://www.azlyrics.com/lyrics/amazing-grace"
UrlF == "https://chords.example/amazing-grace"
UrlG == "https://genius.com/amazing-grace-lyrics"

\* the result lists the provider answers with
ProviderLists ==
    { <<>>,
      <<Result(UrlA, "", "Amazing Grace")>>,
      <<Result(UrlB, "", "Chords"), Result("", UrlA, "Hymnary")>>,
      <<Result("", "", "no url"), Result(UrlC, UrlA, "Lyrics"), Result(UrlB, "", "Tabs")>>,
      <<Result(UrlD, "", "Worship"), Result(UrlE, "", "AZ"), Result(UrlF, "", "Chords")>>,
      <<Result(UrlG, "", "Genius"), Result(UrlD, "", "Worship"), Result(UrlA, "", "Hymnary")>> }

\* what DDGS does on one query: it raises (rate limit, network), or answers
\* with at most `cap` results
ProviderOutcomes(cap) ==
    {[raised |-> TRUE, results |-> <<>>]}
    \cup {[raised |-> FALSE, results |-> r] : r \in {l \in ProviderLists : Len(l) <= cap}}

\* (mutant) the dedup with the whole result in the seen-set instead of its URL
RECURSIVE DedupByResult(_, _, _, _)
DedupByResult(results, i, seen, unique) ==
    IF i > Len(results) THEN unique
    ELSE IF UrlOf(results[i]) # "" /\ results[i] \notin seen
    THEN DedupByResult(results, i + 1, seen \cup {results[i]}, Append(unique, results[i]))
    ELSE DedupByResult(results, i + 1, seen, unique)

\* the dedup loop from result i on: seen_urls, unique_results
RECURSIVE DedupLoop(_, _, _, _)
DedupLoop(results, i, seen_urls, unique) ==
    IF i > Len(results) THEN unique
    ELSE IF UrlOf(results[i]) # "" /\ UrlOf(results[i]) \notin seen_urls
    THEN DedupLoop(results, i + 1, seen_urls \cup {UrlOf(results[i])},
                   Append(unique, results[i]))
    ELSE DedupLoop(results, i + 1, seen_urls, unique)

\* one iteration of the query loop; after the last query either
\* return "Lyrics not found." or go on to open the client
McpSearch ==
    /\ mpc = "search"
    /\ \E o \in ProviderOutcomes(PerQueryCap(max_results)) :
          LET all == IF o.raised THEN all_results ELSE all_results \o o.results
          IN /\ all_results' = all
             /\ mqlog' = Append(mqlog, [raised |-> o.raised, results |-> o.results,
                                         cap |-> PerQueryCap(max_results)])
             /\ IF mq < NumQueries
                THEN mq' = mq + 1 /\ UNCHANGED <<mpc, mresult>>
                ELSE IF Len(all) = 0
                THEN mpc' = "done" /\ mq' = 0
                     /\ mresult' = Some("Lyrics not found.", "none")
                ELSE mpc' = "dedup" /\ mq' = 0 /\ UNCHANGED mresult
    /\ UNCHANGED <<max_results, unique_results, client, mfetched, mlast, mok, mraised>>
    /\ UNCHANGED <<xvars, rvars, avars, ovars>>

\* client = httpx.Client(...); the dedup loop
McpDedup ==
    /\ mpc = "dedup"
    /\ client' = "open"
    /\ unique_results' = DedupLoop(all_results, 1, {}, <<>>)
    /\ mpc' = "fetch" /\ mq' = 1
    /\ UNCHANGED <<max_results, all_results, mfetched, mqlog, mlast, mok, mresult,
                   mraised>>
    /\ UNCHANGED <<xvars, rvars, avars, ovars>>

\* (mutant) the iteration without response.raise_for_status()
McpTryFetchAnyStatus(o) ==
    IF o.kind \in {"timeout", "connect_error"} THEN None
    ELSE IF o.kind = "bad_body" THEN None
    ELSE ExtractOf[o.page]

\* what one iteration of the fetch loop yields: response.raise_for_status()
\* raises for a status of 400 and above; every exception is caught
McpTryFetch(o) ==
    IF o.kind \in {"timeout", "connect_error"} THEN None
    ELSE IF o.status >= 400 THEN None
    ELSE IF o.kind = "bad_body" THEN None
    ELSE ExtractOf[o.page]

\* what the HTTP collaborator does on one client.get: an outcome of
\* FetchOutcomes, or the call is interrupted by an exception that is no
\* Exception (KeyboardInterrupt, SystemExit, a cancellation)
McpFetchOutcomes == FetchOutcomes \cup {Resp("interrupt", 0, <<>>, <<>>)}

\* the fetch succeeded and its page has a non-empty extraction
GoodFetch(o) ==
    /\ o.kind = "response" /\ o.status >= 200 /\ o.status < 300
    /\ ExtractOf[o.page].found /\ ExtractOf[o.page].text # ""

\* one iteration of the fetch loop; the loop may be empty.  except Exception
\* does not catch an interrupt: it leaves get_lyrics, and nothing closes the
\* client on that path
McpFetch ==
    /\ mpc = "fetch"
    /\ IF mq > Len(unique_results)
       THEN /\ client' = "closed" /\ mpc' = "done"
            /\ mresult' = Some("Lyrics not found.", "none")
            /\ UNCHANGED <<mq, mfetched, mlast, mok, mraised>>
       ELSE \E o \in McpFetchOutcomes :
              /\ mfetched' = Append(mfetched, UrlOf(unique_results[mq]))
              /\ mlast' = o
              /\ mok' = Append(mok, GoodFetch(o))
              /\ IF o.kind = "interrupt"
                 THEN /\ mraised' = TRUE /\ mpc' = "done"
                      /\ UNCHANGED <<client, mq, mresult>>
                 ELSE IF Truthy(McpTryFetch(o))
                 THEN /\ client' = "closed" /\ mpc' = "done"
                      /\ mresult' = McpTryFetch(o)
                      /\ UNCHANGED <<mq, mraised>>
                 ELSE mq' = mq + 1 /\ UNCHANGED <<client, mpc, mresult, mraised>>
    /\ UNCHANGED <<max_results, all_results, unique_results, mqlog>>
    /\ UNCHANGED <<xvars, rvars, avars, ovars>>

MaxResultsChoices == {3, 4, 10}

InitMcp ==
    /\ max_results \in MaxResultsChoices
    /\ mpc = "search" /\ mq = 1 /\ all_results = <<>> /\ unique_results = <<>>
    /\ client = "none" /\ mfetched = <<>> /\ mresult = None /\ mraised = FALSE
    /\ mqlog = <<>> /\ mlast = NoResp /\ mok = <<>>
    /\ ExtractorIdle /\ RetrievalIdle /\ AnalyzerIdle /\ OthersIdle

NextMcp == McpSearch \/ McpDedup \/ McpFetch

SpecMcp == InitMcp /\ [][NextMcp]_vars

\* either entry point is invoked: LyricsClient.get_lyrics or the MCP
\* server's get_lyrics
InitSearch == Init \/ InitMcp

NextSearch == Next \/ NextMcp

SpecSearch == InitSearch /\ [][NextSearch]_vars

-----------------------------------------------------------------------------
(* Properties of the search executors (under SpecSearch)                   *)

\* the search requests of a stage, in the order issued
SearchLog(stage) == SelectSeq(rlog, LAMBDA q : q.stage = stage /\ q.kind = "search")

QueriesOf(stage) ==
    IF stage = "genius" THEN GeniusQueries(title, artist) ELSE GoogleQueries(title, artist)

\* the provider failed on the query: exception, non-200, or no usable link
SearchFailed(o, stage) ==
    \/ o.kind # "response"
    \/ o.status # 200
    \/ Len(IF stage = "genius" THEN GeniusLinksOf[o.links] ELSE GoogleLinksOf[o.links]) = 0

\* the results of the queries that did not raise, in query order
RECURSIVE Gathered(_)
Gathered(log) ==
    IF Len(log) = 0 THEN <<>>
    ELSE (IF log[1].raised THEN <<>> ELSE log[1].results) \o Gathered(Tail(log))

-----------------------------------------------------------------------------
(* Properties of the MCP server's get_lyrics (under SpecMcp)               *)

UrlsOf(results) == [i \in 1..Len(results) |-> UrlOf(results[i])]

\* the position of the first result of the list that carries the URL
FirstIndex(results, url) ==
    CHOOSE i \in 1..Len(results) :
        /\ UrlOf(results[i]) = url
        /\ \A j \in 1..(i - 1) : UrlOf(results[j]) # url

\* C4: the candidate list the fetch loop iterates over holds each distinct
\* URL of the aggregated results exactly once, in the order of the URLs'
\* first occurrences, and the loop requests its URLs in that order.
C4_DedupFirstSeen ==
    mpc \in {"fetch", "done"} /\ client # "none" =>
        LET cand == UrlsOf(unique_results)
        IN /\ {cand[i] : i \in 1..Len(cand)}
                = {UrlOf(all_results[i]) : i \in 1..Len(all_results)} \ {""}
           /\ \A i, j \in 1..Len(cand) : i # j => cand[i] # cand[j]
           /\ \A i, j \in 1..Len(cand) :
                 i < j => FirstIndex(all_results, cand[i]) < FirstIndex(all_results, cand[j])
           /\ \A i \in 1..Len(cand) :
                 unique_results[i] = all_results[FirstIndex(all_results, cand[i])]
           /\ Len(mfetched) <= Len(cand)
           /\ mfetched = SubSeq(cand, 1, Len(mfetched))

\* C4 witness: the aggregated list repeats URLs (one of them under the
\* "link" key) and the loop went through all three candidates
C4_Witness ==
    /\ mpc = "done" /\ client = "closed"
    /\ Len(all_results) > Len(unique_results) + 2
    /\ \E i \in 1..Len(all_results) : all_results[i].href = "" /\ all_results[i].link = UrlA
    /\ Len(mfetched) = 3

-----------------------------------------------------------------------------
(* Analysis Requestor and Response Parser:                                 *)
(* OllamaAnalyzer._make_request and OllamaAnalyzer.analyze_lyrics          *)
(* The model text is a sequence of tokens: an opening brace, a closing     *)
(* brace, a run of other text, or one well-formed member "key": value of   *)
(* an object.  Positions in the token sequence stand for positions in the  *)
(* text; find and rfind keep Python's numbering (from 0, -1 for absent).   *)

\* JSON values as Python reads them: a list of strings, a string, None
JList(items) == [type |-> "list", items |-> items, str |-> ""]
JStr(str)    == [type |-> "str", items |-> <<>>, str |-> str]
JNull        == [type |-> "null", items |-> <<>>, str |-> ""]

Tok(kind, key, val) == [kind |-> kind, key |-> key, val |-> val]
LBrace == Tok("{", "", JNull)
RBrace == Tok("}", "", JNull)
Text   == Tok("text", "", JNull)
Member(key, val) == Tok("member", key, val)

\* response.find(ch)
Find(tokens, ch) ==
    LET at == {i \in 1..Len(tokens) : tokens[i].kind = ch}
    IN IF at = {} THEN -1 ELSE (CHOOSE i \in at : \A j \in at : i <= j) - 1

\* response[start:end] for 0 <= start
Slice(tokens, start, end) ==
    SubSeq(tokens, start + 1, IF end > Len(tokens) THEN Len(tokens) ELSE end)

\* the dict json.loads builds from the members: a later member replaces an
\* earlier one of the same key
RECURSIVE BuildDict(_, _)
BuildDict(members, d) ==
    IF Len(members) = 0 THEN d
    ELSE LET m == members[1]
         IN BuildDict(Tail(members),
                      [k \in DOMAIN d \cup {m.key} |-> IF k = m.key THEN m.val ELSE d[k]])

EmptyDict == [k \in {} |-> JNull]

\* json.loads(json_text): the dict, or JSONDecodeError.  The text is an
\* object when it is an opening brace, members, and a closing brace.
JsonLoads(json_text) ==
    IF /\ Len(json_text) >= 2
       /\ json_text[1].kind = "{"
       /\ json_text[Len(json_text)].kind = "}"
       /\ \A i \in 2..(Len(json_text) - 1) : json_text[i].kind = "member"
    THEN [ok |-> TRUE,
          data |-> BuildDict(SubSeq(json_text, 2, Len(json_text) - 1), EmptyDict)]
    ELSE [ok |-> FALSE, data |-> EmptyDict]

\* analysis_data.get(key, default)
Get(d, key, default) == IF key \in DOMAIN d THEN d[key] ELSE default

\* the fallback analysis_data of the branch "No JSON found"
NoJsonData ==
    [ themes |-> JList(<<"Worship", "Praise">>),
      biblical_references |-> JList(<<"General worship themes">>),
      worship_elements |-> JList(<<"Congregational singing">>),
      emotional_tone |-> JStr("Reverent"),
      service_placement |-> JStr("Worship"),
      seasonal_appropriateness |-> JList(<<"Any season">>),
      complexity_level |-> JStr("Simple"),
      summary |-> JStr("Analysis extracted from non-JSON response") ]

Analysis(t, a, th, br, we, et, sp, sa, cl, su, raw) ==
    [ title |-> t, artist |-> a, themes |-> th, biblical_references |-> br,
      worship_elements |-> we, emotional_tone |-> et, service_placement |-> sp,
      seasonal_appropriateness |-> sa, complexity_level |-> cl, summary |-> su,
      raw_lyrics |-> raw ]

\* (mutant) the record built from analysis_data, its title key included
FromDataWithTitle(t, a, lyrics, d) ==
    Analysis(Get(d, "title", JStr(t)).str, a,
             Get(d, "themes", JList(<<>>)),
             Get(d, "biblical_references", JList(<<>>)),
             Get(d, "worship_elements", JList(<<>>)),
             Get(d, "emotional_tone", JStr("Unknown")),
             Get(d, "service_placement", JStr("Unknown")),
             Get(d, "seasonal_appropriateness", JList(<<>>)),
             Get(d, "complexity_level", JStr("Unknown")),
             Get(d, "summary", JStr("Analysis unavailable")),
             lyrics)

\* the record built from analysis_data with the per-field defaults
FromData(t, a, lyrics, d) ==
    Analysis(t, a,
             Get(d, "themes", JList(<<>>)),
             Get(d, "biblical_references", JList(<<>>)),
             Get(d, "worship_elements", JList(<<>>)),
             Get(d, "emotional_tone", JStr("Unknown")),
             Get(d, "service_placement", JStr("Unknown")),
             Get(d, "seasonal_appropriateness", JList(<<>>)),
             Get(d, "complexity_level", JStr("Unknown")),
             Get(d, "summary", JStr("Analysis unavailable")),
             lyrics)

\* the record of the branch lyrics == "Lyrics not found."
NotFoundRecord(t, a) ==
    Analysis(t, a, JList(<<>>), JList(<<>>), JList(<<>>), JStr("Unknown"),
             JStr("Unknown"), JList(<<>>), JStr("Unknown"),
             JStr("Lyrics could not be retrieved for analysis."), "")

\* the record of the branch except json.JSONDecodeError
DecodeErrorRecord(t, a, lyrics) ==
    Analysis(t, a, JList(<<"Analysis incomplete">>), JList(<<>>), JList(<<>>),
             JStr("Unknown"), JStr("Unknown"), JList(<<>>), JStr("Unknown"),
             JStr("Could not parse analysis results."), lyrics)

\* (mutant) the closing brace located with find instead of rfind
RFindFirst(tokens, ch) == Find(tokens, ch)

\* response.rfind(ch)
RFind(tokens, ch) ==
    LET at == {i \in 1..Len(tokens) : tokens[i].kind = ch}
    IN IF at = {} THEN -1 ELSE (CHOOSE i \in at : \A j \in at : i >= j) - 1

\* (mutant) the try block without its except clause
ParseAnalysisUncaught(t, a, lyrics, response) ==
    LET json_start == Find(response, "{")
        json_end   == RFind(response, "}") + 1
    IN IF json_start >= 0 /\ json_end > json_start
       THEN LET loaded == JsonLoads(Slice(response, json_start, json_end))
            IN IF loaded.ok
               THEN [raised |-> FALSE, branch |-> "json",
                     record |-> FromData(t, a, lyrics, loaded.data)]
               ELSE [raised |-> TRUE, branch |-> "decode_error", record |-> NoRecord]
       ELSE [raised |-> FALSE, branch |-> "no_json",
             record |-> FromData(t, a, lyrics, NoJsonData)]

\* the try block of analyze_lyrics on the response text: the record and
\* the return statement that built it; json.JSONDecodeError is caught
ParseAnalysis(t, a, lyrics, response) ==
    LET json_start == Find(response, "{")
        json_end   == RFind(response, "}") + 1
    IN IF json_start >= 0 /\ json_end > json_start
       THEN LET loaded == JsonLoads(Slice(response, json_start, json_end))
            IN IF loaded.ok
               THEN [raised |-> FALSE, branch |-> "json",
                     record |-> FromData(t, a, lyrics, loaded.data)]
               ELSE [raised |-> FALSE, branch |-> "decode_error",
                     record |-> DecodeErrorRecord(t, a, lyrics)]
       ELSE [raised |-> FALSE, branch |-> "no_json",
             record |-> FromData(t, a, lyrics, NoJsonData)]

\* What the model collaborator does on the request, and what _make_request
\* makes of it: "timeout" (requests.Timeout) and "connect_error", "bad_json"
\* (requests.RequestException; response.json() raises a subclass of it) are
\* caught and give ""; a status other than 200 gives ""; "no_field" is a 200
\* reply without the key "response", whose KeyError is not caught.
MakeRequest(kind, text) ==
    IF kind \in {"timeout", "connect_error", "bad_json", "status_500"}
    THEN [raised |-> FALSE, text |-> <<>>]
    ELSE IF kind = "no_field" THEN [raised |-> TRUE, text |-> <<>>]
    ELSE [raised |-> FALSE, text |-> text]

MaxMembers == 2   \* members of the object in a model text

MemberChoices ==
    { Member("themes", JList(<<"grace">>)),
      Member("emotional_tone", JStr("joyful")),
      Member("summary", JStr("A hymn of grace")),
      Member("themes", JList(<<"mercy", "faith">>)),
      Member("biblical_references", JList(<<"Ephesians 2:8">>)),
      Member("title", JStr("Another Song")),
      Member("themes", JNull),
      Member("summary", JList(<<"grace">>)) }

Affixes == {<<>>, <<Text>>, <<RBrace>>, <<LBrace>>}

Objects ==
    {<<>>, <<LBrace, Text, RBrace>>}
    \cup {<<LBrace>> \o ms \o <<RBrace>> : ms \in SeqsUpTo(MemberChoices, MaxMembers)}

\* the texts the model answers with
ModelTexts == {pre \o obj \o suf : pre \in Affixes, obj \in Objects, suf \in Affixes}

SampleLyricsText == GetSampleLyrics("Amazing Grace")

\* if lyrics == "Lyrics not found.": return LyricsAnalysis(...)
AnalyzeStart ==
    /\ apc = "start"
    /\ IF alyrics = "Lyrics not found."
       THEN /\ arecord' = NotFoundRecord(atitle, aartist)
            /\ abranch' = "not_found" /\ apc' = "done"
       ELSE apc' = "request" /\ UNCHANGED <<arecord, abranch>>
    /\ UNCHANGED <<atitle, aartist, alyrics, aoutcome, aresponse, araised>>
    /\ UNCHANGED <<xvars, rvars, mvars, ovars>>

\* response = self._make_request(analysis_prompt)
AnalyzeRequest ==
    /\ apc = "request"
    /\ \E kind \in {"timeout", "connect_error", "bad_json", "status_500", "no_field", "ok"} :
       \E text \in IF kind = "ok" THEN ModelTexts ELSE {<<>>} :
          LET r == MakeRequest(kind, text)
          IN /\ aoutcome' = kind
             /\ IF r.raised
                THEN araised' = TRUE /\ apc' = "done" /\ UNCHANGED aresponse
                ELSE aresponse' = r.text /\ apc' = "parse" /\ UNCHANGED araised
    /\ UNCHANGED <<atitle, aartist, alyrics, arecord, abranch>>
    /\ UNCHANGED <<xvars, rvars, mvars, ovars>>

\* the try block: locate the braces, json.loads, build the record
AnalyzeParse ==
    /\ apc = "parse"
    /\ LET r == ParseAnalysis(atitle, aartist, alyrics, aresponse)
       IN IF r.raised
          THEN araised' = TRUE /\ UNCHANGED <<arecord, abranch>>
          ELSE arecord' = r.record /\ abranch' = r.branch /\ UNCHANGED araised
    /\ apc' = "done"
    /\ UNCHANGED <<atitle, aartist, alyrics, aoutcome, aresponse>>
    /\ UNCHANGED <<xvars, rvars, mvars, ovars>>

InitAnalyze ==
    /\ atitle \in {"Amazing Grace", "El Shaddai"}
    /\ aartist \in {<<>>, <<"John Newton">>}
    /\ alyrics \in {"Lyrics not found.", SampleLyricsText}
    /\ apc = "start" /\ aoutcome = "none" /\ aresponse = <<>>
    /\ arecord = NoRecord /\ abranch = "none" /\ araised = FALSE
    /\ ExtractorIdle /\ RetrievalIdle /\ McpIdle /\ OthersIdle

NextAnalyze == AnalyzeStart \/ AnalyzeRequest \/ AnalyzeParse

SpecAnalyze == InitAnalyze /\ [][NextAnalyze]_vars

-----------------------------------------------------------------------------
(* Properties of the Response Parser (under SpecAnalyze)                   *)

ListFields   == {"themes", "biblical_references", "worship_elements",
                 "seasonal_appropriateness"}
ScalarFields == {"emotional_tone", "service_placement", "complexity_level", "summary"}
TargetFields == ListFields \cup ScalarFields

\* the positions of the first "{" and the last "}" of a text, 0 for absent
FirstOpen(tokens) ==
    IF \E i \in 1..Len(tokens) : tokens[i].kind = "{"
    THEN CHOOSE i \in 1..Len(tokens) :
            tokens[i].kind = "{" /\ \A j \in 1..(i - 1) : tokens[j].kind # "{"
    ELSE 0
LastClose(tokens) ==
    IF \E i \in 1..Len(tokens) : tokens[i].kind = "}"
    THEN CHOOSE i \in 1..Len(tokens) :
            tokens[i].kind = "}" /\ \A j \in (i + 1)..Len(tokens) : tokens[j].kind # "}"
    ELSE 0

\* the span from the first "{" to the last "}" is an object
HasObject(tokens) ==
    /\ FirstOpen(tokens) > 0 /\ LastClose(tokens) > FirstOpen(tokens)
    /\ \A i \in (FirstOpen(tokens) + 1)..(LastClose(tokens) - 1) : tokens[i].kind = "member"

\* the positions of the members of the object that carry the field
MembersOf(tokens, f) ==
    {i \in (FirstOpen(tokens) + 1)..(LastClose(tokens) - 1) : tokens[i].key = f}

\* the value the object gives the field (its last member of that key)
ObjectValue(tokens, f) ==
    tokens[CHOOSE i \in MembersOf(tokens, f) : \A j \in MembersOf(tokens, f) : i >= j].val

\* the parser ran on a model text: lyrics were given and _make_request
\* returned a text
Parsed == apc = "done" /\ alyrics # "Lyrics not found." /\ aoutcome # "no_field"

\* C9 (as claimed): every present target field is taken from the object and
\* every missing one gets the empty list (list fields) or "Unknown" (scalar
\* fields).
C9_DefaultsAsClaimed ==
    (Parsed /\ HasObject(aresponse)) =>
        \A f \in TargetFields :
            arecord[f] = IF MembersOf(aresponse, f) # {} THEN ObjectValue(aresponse, f)
                         ELSE IF f \in ListFields THEN JList(<<>>)
                         ELSE JStr("Unknown")

\* C9 (amended): as claimed, except that a missing summary gets
\* "Analysis unavailable".
C9_FieldsOrDefaults ==
    (Parsed /\ HasObject(aresponse)) =>
        \A f \in TargetFields :
            arecord[f] = IF MembersOf(aresponse, f) # {} THEN ObjectValue(aresponse, f)
                         ELSE IF f \in ListFields THEN JList(<<>>)
                         ELSE IF f = "summary" THEN JStr("Analysis unavailable")
                         ELSE JStr("Unknown")

\* C9 witness: the text  Sure! {"themes": ["grace"], "emotional_tone": "joyful"}
C9_Witness ==
    /\ Parsed
    /\ aresponse = <<Text, LBrace, Member("themes", JList(<<"grace">>)),
                     Member("emotional_tone", JStr("joyful")), RBrace>>
    /\ arecord.themes = JList(<<"grace">>)
    /\ arecord.emotional_tone = JStr("joyful")
    /\ arecord.biblical_references = JList(<<>>)

AnalysisFields ==
    {"title", "artist", "raw_lyrics"} \cup TargetFields

\* C10: for every model text (empty, without braces, with one brace, with
\* "}" before "{", with braces around text that is no JSON) analyze_lyrics
\* returns an analysis record and does not raise.
C10_NeverRaisesOnText ==
    /\ (apc = "parse" \/ Parsed) => ~araised
    /\ Parsed => DOMAIN arecord = AnalysisFields

\* C10 witness: braces around text that is no JSON gave the record of the
\* branch that catches the decode error
C10_Witness ==
    /\ Parsed
    /\ aresponse = <<LBrace, Text, RBrace>>
    /\ arecord.summary = JStr("Could not parse analysis results.")

\* C11 (as claimed): in every record analyze_lyrics returns, each list field
\* is a list and each scalar field is a string; none is null, also when the
\* parsed object carries a null or wrongly typed value.
C11_EveryFieldPopulated ==
    (apc = "done" /\ ~araised) =>
        /\ \A f \in ListFields : arecord[f].type = "list"
        /\ \A f \in ScalarFields : arecord[f].type = "str"

-----------------------------------------------------------------------------
(* Properties of the general web search (under Spec)                       *)

\* the result URLs that pass the link filter, allow-listed ones first, each
\* part in the order of the result page
StablePartition(links) ==
    SelectSeq(links, LAMBDA h : PassesLinkFilter(h) /\ IsChristianSite(h))
    \o SelectSeq(links, LAMBDA h : PassesLinkFilter(h) /\ ~IsChristianSite(h))

\* _search_google_lyrics has just returned the list built from a result page
GoogleListBuilt ==
    /\ Len(rlog) > 0
    /\ rlog[Len(rlog)].stage = "google" /\ rlog[Len(rlog)].kind = "search"
    /\ rpc = "google_fetch"

\* C14 (as claimed): the list built from one result page is the stable
\* partition of the URLs that pass the link filter (cut to the first 5):
\* no deny-listed URL, allow-listed URLs first in their original relative
\* order, the others after them in their original relative order.
C14_StablePartition ==
    GoogleListBuilt => urls = FirstN(StablePartition(lastResp.links), LinkCap)

-----------------------------------------------------------------------------
(* Properties of the Content Fetcher (under Spec)                          *)

\* the fetch was a soft failure: timeout, connection failure, an error
\* while the page was read or extracted, or a status outside 2xx
FetchFailed(o) ==
    \/ o.kind \in {"timeout", "connect_error", "bad_body"}
    \/ o.status < 200 \/ o.status > 299

\* the fetch requests of a stage issued so far
FetchCount(stage) ==
    Len(SelectSeq(rlog, LAMBDA q : q.stage = stage /\ q.kind = "fetch"))

FetchPc(stage) == IF stage = "direct" THEN "direct" ELSE stage \o "_fetch"

\* C15: _fetch_lyrics_from_url never raises; after a fetch that failed
\* (non-2xx, timeout, connection failure, error during extraction) nothing
\* is returned from that URL and the caller is at the next candidate of the
\* loop or past the loop.
C15_FetchFailureIsSoft ==
    (Len(rlog) > 0 /\ rlog[Len(rlog)].kind = "fetch") =>
        /\ ~rraised
        /\ FetchFailed(lastResp) =>
              /\ rresult.kind # "live"
              /\ rpc = FetchPc(rlog[Len(rlog)].stage) =>
                    ridx = FetchCount(rlog[Len(rlog)].stage) + 1
              /\ rpc # FetchPc(rlog[Len(rlog)].stage) =>
                    rpc \in {"genius_search", "google_search", "fallback", "done"}

\* C15 witness: the first direct URL answered 404 and the loop is at the
\* second direct URL
C15_Witness ==
    /\ Len(rlog) = 1 /\ rlog[1].stage = "direct" /\ rlog[1].kind = "fetch"
    /\ lastResp.kind = "response" /\ lastResp.status = 404
    /\ rpc = "direct" /\ ridx = 2 /\ ~rraised

-----------------------------------------------------------------------------
(* Properties of the Analysis Requestor (under SpecAnalyze)                *)

\* the ways the language-model call fails
FailedCalls == {"timeout", "connect_error", "bad_json", "status_500", "no_field"}

\* C16 (as claimed): whenever the language-model call fails (timeout,
\* transport error, non-200 status, a 200 reply without the response field),
\* _make_request returns the empty string instead of raising and
\* analyze_lyrics returns an analysis record.
C16_FailedCallGivesEmptyText ==
    aoutcome \in FailedCalls =>
        /\ ~araised
        /\ aresponse = <<>>
        /\ apc = "done" => DOMAIN arecord = AnalysisFields

-----------------------------------------------------------------------------
(* Properties of the MCP server's return value (under SpecMcp)             *)

\* no client.get of the invocation was interrupted
NotInterrupted == mlast.kind # "interrupt"

\* the fetches so far that succeeded with a non-empty extraction
GoodFetches == {i \in 1..Len(mok) : mok[i]}

\* C17: unless it is interrupted, get_lyrics of the MCP server never raises;
\* it returns "Lyrics not found." when no query returned a result or no
\* candidate gave a non-empty extraction, and otherwise the extraction of
\* the first candidate, in deduplicated order, whose fetch succeeded with a
\* non-empty extraction (the loop never goes past such a candidate).
C17_SentinelOrFirstGoodCandidate ==
    /\ NotInterrupted => ~mraised
    /\ mpc # "done" => GoodFetches = {}
    /\ (mpc = "done" /\ NotInterrupted) =>
          IF GoodFetches = {}
          THEN /\ mresult.found /\ mresult.text = "Lyrics not found."
               /\ Len(all_results) = 0 \/ Len(mok) = Len(unique_results)
          ELSE /\ GoodFetches = {Len(mok)}
               /\ mfetched[Len(mok)] = UrlOf(unique_results[Len(mok)])
               /\ mresult.found /\ mresult.text = ExtractOf[mlast.page].text

\* C17 witness: the first candidate failed and the second one's extraction
\* is returned
C17_Witness ==
    /\ mpc = "done" /\ NotInterrupted
    /\ Len(mok) = 2 /\ ~mok[1] /\ mok[2]
    /\ Len(unique_results) > 2
    /\ mresult.text = ExtractOf[mlast.page].text

\* C18 (as claimed): the HTTP client opened by an invocation is closed when
\* the invocation ends, on every exit path: acceptance, exhaustion, abort.
C18_ClientClosedOnEveryExit ==
    (mpc = "done" /\ client # "none") => client = "closed"

\* n / d rounded up
CeilDiv(n, d) == (n + d - 1) \div d

\* C19 (as claimed): for every max_results >= 1 the per-query cap passed to
\* the provider is ceil(max_results / 4).
C19_PerQueryCapIsCeiling ==
    \A i \in 1..Len(mqlog) : mqlog[i].cap = CeilDiv(max_results, NumQueries)

-----------------------------------------------------------------------------
(* Properties of the Fallback Provider's tag (under Spec)                  *)

\* C20 (as claimed): a consumer of get_lyrics can always tell synthetic from
\* live content: every fallback payload begins with "[Sample lyrics" and no
\* text returned from a live page does, whatever the page content.
C20_TagTellsSyntheticFromLive ==
    (rpc = "done" /\ ~rraised) =>
        (rresult.kind = "fallback" <=> StartsWith(rresult.text, "[Sample lyrics"))

-----------------------------------------------------------------------------
(* The analysis CLI: main of lyrics/analyze_lyrics.py.  The call of        *)
(* get_lyrics is one step that yields one of the values get_lyrics returns *)
(* (a live extraction longer than 100 characters or the sample payload);   *)
(* the call of analyze_lyrics runs the analyzer's steps above.             *)

\* values lyrics_client.get_lyrics(args.title, args.artist) returns
GetLyricsReturns(t) ==
    {Live(ExtractOf[pg].text) :
        pg \in {q \in {Page101, PageTagged} :
                  ExtractOf[q].found /\ Len(ExtractOf[q].text) > MinLength}}
    \cup {[kind |-> "fallback", text |-> GetSampleLyrics(t)]}

\* lyrics = lyrics_client.get_lyrics(args.title, args.artist)
MainFetch ==
    /\ cpc = "fetch"
    /\ \E r \in GetLyricsReturns(atitle) : clyrics' = r
    /\ cpc' = "check"
    /\ UNCHANGED <<cjson, cstatus, xvars, rvars, mvars, avars, nvars>>

\* if lyrics == "Lyrics not found.": sys.exit(1); else call analyze_lyrics
MainCheck ==
    /\ cpc = "check"
    /\ IF clyrics.text = "Lyrics not found."
       THEN cstatus' = 1 /\ cpc' = "exit" /\ UNCHANGED <<alyrics, apc>>
       ELSE /\ alyrics' = clyrics.text /\ apc' = "start" /\ cpc' = "analyze"
            /\ UNCHANGED cstatus
    /\ UNCHANGED <<cjson, clyrics, atitle, aartist, aoutcome, aresponse, arecord,
                   abranch, araised, xvars, rvars, mvars, nvars>>

\* format_analysis_report iterates the four list fields: a field that is
\* None raises TypeError
ReportRaises(record) ==
    \E f \in {"themes", "biblical_references", "worship_elements",
              "seasonal_appropriateness"} : record[f].type = "null"

\* the output step and the end of the process: an exception that leaves
\* main ends the process with status 1, a normal return with status 0
MainOutput ==
    /\ cpc = "analyze" /\ apc = "done"
    /\ cstatus' = IF araised THEN 1
                  ELSE IF cjson THEN 0
                  ELSE IF ReportRaises(arecord) THEN 1 ELSE 0
    /\ cpc' = "exit"
    /\ UNCHANGED <<cjson, clyrics, xvars, rvars, mvars, avars, nvars>>

InitMain ==
    /\ atitle \in {"Amazing Grace", "El Shaddai"}
    /\ aartist \in {<<>>, <<"John Newton">>}
    /\ cjson \in BOOLEAN
    /\ cpc = "fetch" /\ clyrics = NoResult /\ cstatus = -1
    /\ alyrics = "" /\ apc = "idle" /\ aoutcome = "none" /\ aresponse = <<>>
    /\ arecord = NoRecord /\ abranch = "none" /\ araised = FALSE
    /\ ExtractorIdle /\ RetrievalIdle /\ McpIdle /\ BridgeIdle /\ LabelsIdle

NextMain ==
    \/ MainFetch
    \/ MainCheck
    \/ AnalyzeStart
    \/ AnalyzeRequest
    \/ AnalyzeParse
    \/ MainOutput

SpecMain == InitMain /\ [][NextMain]_vars

\* C21 (as claimed): the CLI exits with status 0 for every retrieval outcome
\* and every model response; the exit(1) branch of the sentinel is never
\* taken.
C21_AlwaysExitsZero ==
    /\ cpc = "exit" => cstatus = 0
    /\ cpc \in {"check", "analyze", "exit"} => clyrics.text # "Lyrics not found."

-----------------------------------------------------------------------------
(* Properties of the fallback pass (under SpecExtract)                     *)

\* the chord lines of the specification, computed once for every line
ChordSymbolOf == [l \in Stripped |-> IsChordSymbolLine(l)]

\* the word count of the line is from 2 to 19
InRun(line) == WordCountOf[line] >= 2 /\ WordCountOf[line] <= 19

\* the fallback pass as the specification words it, for a given notion of
\* chord line: the runs are the maximal stretches of in-range lines of the
\* page with its chord lines dropped
FallbackAsSpecified(pg, chordOf) ==
    LET kept   == SelectSeq(PageLines(pg), LAMBDA l : ~chordOf[l])
        n      == Len(kept)
        starts == {i \in 1..n : InRun(kept[i]) /\ (i = 1 \/ ~InRun(kept[i - 1]))}
        EndOf(i) ==
            LET stops == {k \in i..n : ~InRun(kept[k])}
            IN IF stops = {} THEN n
               ELSE (CHOOSE k \in stops : \A m \in stops : k <= m) - 1
        long   == {i \in starts : EndOf(i) - i + 1 >= 15}
        Size(i) == Len(Join(SubSeq(kept, i, EndOf(i))))
    IN IF long = {} THEN None
       ELSE LET best == CHOOSE i \in long :
                           \A j \in long : Size(j) < Size(i) \/ (Size(j) = Size(i) /\ i <= j)
            IN OrNone(Strip(Join(SubNotice(SubSeq(kept, best, EndOf(best))))), "fallback")

\* the fallback pass ran and returned
FallbackRan == xpc = "done" /\ xresult.pass # "structured"

\* C22 (as claimed): when the fallback pass runs, chord-only lines are
\* dropped without closing a run, lines of 2 to 19 words form runs, other
\* lines close a run, runs under 15 lines are never returned, and the
\* longest kept run (the earliest among equals) is returned after the
\* copyright trim, not-found when no run is kept.
C22_FallbackAsSpecified ==
    FallbackRan => xresult = FallbackAsSpecified(page, ChordSymbolOf)

-----------------------------------------------------------------------------
(* Properties of the structured pass (under SpecExtract)                   *)

\* the containers that pass both thresholds
QualifiedContainers(pg) ==
    {i \in Containers(pg) :
        /\ Len(ContainerLines(pg, i)) >= 10
        /\ Len(LyricLines(ContainerLines(pg, i))) >= 8}

\* the place in the pattern list of the first pattern the container matches
FirstPattern(pg, i) ==
    CHOOSE s \in Decompose(pg)[i].sels : \A r \in Decompose(pg)[i].sels : s <= r

\* the qualified container of the earliest pattern, the earliest in the
\* document among those of that pattern
WinningContainer(pg) ==
    CHOOSE i \in QualifiedContainers(pg) :
        \A j \in QualifiedContainers(pg) :
            \/ FirstPattern(pg, i) < FirstPattern(pg, j)
            \/ (FirstPattern(pg, i) = FirstPattern(pg, j) /\ i <= j)

\* C23: the structured pass tries the patterns in list order and, for each,
\* the matching elements in document order; the first block that passes
\* both thresholds is returned at once, so a block of an earlier pattern
\* wins over a block of a later pattern wherever the two stand in the page,
\* and the fallback pass is never evaluated once a block has qualified.
C23_EarlierPatternWins ==
    /\ xpc = "fallback" => QualifiedContainers(page) = {}
    /\ xpc = "done" =>
          IF QualifiedContainers(page) = {}
          THEN xresult.pass # "structured"
          ELSE xresult = Some(StructuredText(Decompose(page)[WinningContainer(page)]),
                              "structured")

\* C23 witness: the returned block stands after a qualified block of a later
\* pattern in the page
C23_Witness ==
    /\ xpc = "done" /\ xresult.pass = "structured"
    /\ \E j \in QualifiedContainers(page) :
          /\ j < WinningContainer(page)
          /\ FirstPattern(page, j) > FirstPattern(page, WinningContainer(page))
          /\ StructuredText(Decompose(page)[j]) # xresult.text

-----------------------------------------------------------------------------
(* Properties of the recovery branches of analyze_lyrics (under SpecAnalyze) *)

\* the default record with the generic worship-themed placeholder values
PlaceholderRecord == FromData(atitle, aartist, alyrics, NoJsonData)

\* C24 (as claimed): whenever the model text holds no parseable object, for
\* a missing brace or for a span from the first "{" to the last "}" that is
\* not valid JSON, the record returned is the same default record with the
\* generic worship-themed placeholder values.
C24_SameDefaultRecord ==
    (Parsed /\ ~araised /\ ~HasObject(aresponse)) => arecord = PlaceholderRecord

\* analyze_lyrics returned a record
Returned == apc = "done" /\ ~araised

\* C25 (as claimed): the title, artist and raw_lyrics of the returned record
\* always equal the title, artist and lyric text passed in, whatever the
\* model response holds and whichever branch built the record.
C25_InputsAlwaysKept ==
    Returned =>
        /\ arecord.title = atitle
        /\ arecord.artist = aartist
        /\ arecord.raw_lyrics = alyrics

\* C25 (amended): the title and artist of the returned record always equal
\* those passed in; raw_lyrics equals the lyric text passed in, except that
\* it is the empty string when that text is "Lyrics not found.".
C25_InputsKeptButSentinel ==
    Returned =>
        /\ arecord.title = atitle
        /\ arecord.artist = aartist
        /\ arecord.raw_lyrics = IF alyrics = "Lyrics not found." THEN "" ELSE alyrics

\* C25 witness: the model's object carries a title of its own and the record
\* still has the caller's title and lyric text
C25_Witness ==
    /\ Returned /\ abranch = "json"
    /\ MembersOf(aresponse, "title") # {}
    /\ ObjectValue(aresponse, "title") = JStr("Another Song")
    /\ arecord.title = "Amazing Grace"
    /\ arecord.raw_lyrics = SampleLyricsText

-----------------------------------------------------------------------------
(* Properties of the Fallback Provider (under Spec)                        *)

\* for every title, the known entries whose full key the lower-cased title
\* contains
FullKeysIn ==
    [t \in Titles |-> {k \in 1..Len(SampleKeys) : Contains(ToLower(t), SampleKeys[k])}]

\* the Fallback Provider produced the result
SampleReturned == rpc = "done" /\ rresult.kind = "fallback"

\* C26 (as claimed): the Fallback Provider returns a known entry's sample
\* only when the lower-cased title contains the entry's full key; for every
\* title that contains no full key it returns the generic placeholder
\* message naming the title.
C26_SampleOnlyOnFullKey ==
    SampleReturned =>
        IF FullKeysIn[title] = {}
        THEN rresult.text = DefaultSample(title)
        ELSE \E k \in FullKeysIn[title] :
                rresult.text = "[Sample lyrics for demonstration]\n\n" \o SampleTexts[k]

-----------------------------------------------------------------------------
(* Text search and json.loads on the texts of the two model-driven tools   *)

\* s.find(p) + 1: the place of the first occurrence of p in s, 0 when absent
IndexOf(s, p) ==
    LET at == {i \in 1..(Len(s) - Len(p) + 1) : SubSeq(s, i, i + Len(p) - 1) = p}
    IN IF at = {} THEN 0 ELSE CHOOSE i \in at : \A j \in at : i <= j

\* s.rfind(p) + 1: the place of the last occurrence of p in s, 0 when absent
LastIndexOf(s, p) ==
    LET at == {i \in 1..(Len(s) - Len(p) + 1) : SubSeq(s, i, i + Len(p) - 1) = p}
    IN IF at = {} THEN 0 ELSE CHOOSE i \in at : \A j \in at : i >= j

\* s.split(ch) for a separator of one character
RECURSIVE SplitOn(_, _)
SplitOn(s, ch) ==
    LET i == IndexOf(s, ch)
    IN IF i = 0 THEN <<s>>
       ELSE <<SubSeq(s, 1, i - 1)>> \o SplitOn(SubSeq(s, i + 1, Len(s)), ch)

\* json.loads accepts the text: the grammar of JSON for scalars and for
\* arrays and objects of scalars, with string literals that hold no quote,
\* backslash, comma or colon (the texts of this model hold no others)
IsJsonString(s) ==
    /\ Len(s) >= 2 /\ Char(s, 1) = "\"" /\ Char(s, Len(s)) = "\""
    /\ \A i \in 2..(Len(s) - 1) : Char(s, i) \notin {"\"", "\\", ",", ":"}
IsJsonNumber(s) ==
    /\ Len(s) > 0
    /\ \A i \in 1..Len(s) : Contains(Digits, Char(s, i))
    /\ (Len(s) = 1 \/ Char(s, 1) # "0")
IsJsonScalar(s) == IsJsonString(s) \/ IsJsonNumber(s) \/ s \in {"true", "false", "null"}
Interior(s) == SubSeq(s, 2, Len(s) - 1)
IsJsonArray(s) ==
    /\ Len(s) >= 2 /\ Char(s, 1) = "[" /\ Char(s, Len(s)) = "]"
    /\ \/ Strip(Interior(s)) = ""
       \/ \A k \in 1..Len(SplitOn(Interior(s), ",")) :
             IsJsonScalar(Strip(SplitOn(Interior(s), ",")[k]))
IsJsonMember(s) ==
    LET c == IndexOf(s, ":")
    IN /\ c > 0
       /\ IsJsonString(Strip(SubSeq(s, 1, c - 1)))
       /\ IsJsonScalar(Strip(SubSeq(s, c + 1, Len(s))))
IsJsonObject(s) ==
    /\ Len(s) >= 2 /\ Char(s, 1) = "{" /\ Char(s, Len(s)) = "}"
    /\ \/ Strip(Interior(s)) = ""
       \/ \A k \in 1..Len(SplitOn(Interior(s), ",")) :
             IsJsonMember(SplitOn(Interior(s), ",")[k])
JsonValid(s) ==
    LET t == Strip(s) IN IsJsonScalar(t) \/ IsJsonArray(t) \/ IsJsonObject(t)

-----------------------------------------------------------------------------
(* The tool bridge: OllamaWithMCP.chat_with_tools                          *)

\* max_iterations
MaxIterations == 5

Marker == "TOOL_CALL:"

\* the parse of the tool call in a response that holds the marker:
\* response.split("TOOL_CALL:")[1].strip(), split(":", 1), json.loads
ParseToolCall(response) ==
    LET i    == IndexOf(response, Marker)
        rest == SubSeq(response, i + Len(Marker), Len(response))
        j    == IndexOf(rest, Marker)
        part == Strip(IF j = 0 THEN rest ELSE SubSeq(rest, 1, j - 1))
        c    == IndexOf(part, ":")
    IN IF c = 0
       THEN [ok |-> FALSE, error |-> "ValueError", tool_name |-> "", args |-> ""]
       ELSE IF ~JsonValid(SubSeq(part, c + 1, Len(part)))
       THEN [ok |-> FALSE, error |-> "JSONDecodeError", tool_name |-> "", args |-> ""]
       ELSE [ok |-> TRUE, error |-> "", tool_name |-> SubSeq(part, 1, c - 1),
             args |-> Strip(SubSeq(part, c + 1, Len(part)))]

\* what the subprocess of call_tool does: it prints a text and ends with
\* status 0, ends with another status, or runs into the 30 s timeout
ToolOutcomes ==
    { [kind |-> "ok", stdout |-> "Amazing grace, how sweet the sound\n"],
      [kind |-> "ok", stdout |-> "Lyrics not found.\n"],
      [kind |-> "nonzero", stdout |-> ""],
      [kind |-> "timeout", stdout |-> ""] }

\* MCPClient.call_tool: every exception is caught and reported as text
CallTool(tool_name, args, outcome) ==
    IF tool_name # "get_lyrics" THEN "Unknown tool: " \o tool_name
    ELSE IF ~IsJsonObject(args) THEN "Error calling tool: no attribute 'get'"
    ELSE IF outcome.kind = "timeout" THEN "Error calling tool: timed out"
    ELSE IF outcome.kind = "nonzero" THEN "Error fetching lyrics"
    ELSE Strip(outcome.stdout)

\* _make_ollama_request: a status other than 200 and every
\* requests.RequestException give an error text; "no_field" is a 200 reply
\* without the key "response", whose KeyError is not caught
MakeOllamaRequest(kind, text) ==
    IF kind = "ok" THEN [raised |-> FALSE, text |-> text]
    ELSE IF kind = "status_500" THEN [raised |-> FALSE, text |-> "Ollama API error: 500"]
    ELSE IF kind = "no_field" THEN [raised |-> TRUE, text |-> ""]
    ELSE [raised |-> FALSE, text |-> "Error connecting to Ollama: " \o kind]

\* the texts the model answers with
BridgeReplies ==
    { "This hymn is about grace.",
      "TOOL_CALL:get_lyrics:{\"title\": \"Amazing Grace\"}",
      "Let me look. TOOL_CALL:get_lyrics:{\"title\": \"Amazing Grace\"}\n",
      "TOOL_CALL:search_web:{}",
      "TOOL_CALL:get_lyrics:5",
      "TOOL_CALL:get_lyrics",
      "TOOL_CALL:get_lyrics:{title}",
      "TOOL_CALL:get_lyrics:{} I hope this helps" }

BridgeRequestKinds == {"ok", "status_500", "timeout", "connect_error", "no_field"}

\* every text a request can return, and its tool call
BridgeTexts ==
    {MakeOllamaRequest(k, t).text : k \in BridgeRequestKinds \ {"no_field"}, t \in BridgeReplies}
HasMarker == [r \in BridgeTexts |-> Contains(r, Marker)]
ToolCallOf == [r \in {q \in BridgeTexts : HasMarker[q]} |-> ParseToolCall(r)]

\* response = self._make_ollama_request(messages), inside the loop
BridgeRequest ==
    /\ bpc = "loop" /\ iteration < MaxIterations
    /\ iteration' = iteration + 1
    /\ \E kind \in BridgeRequestKinds :
       \E text \in IF kind = "ok" THEN BridgeReplies ELSE {""} :
          LET r == MakeOllamaRequest(kind, text)
          IN IF r.raised
             THEN /\ braised' = TRUE /\ bpc' = "done"
                  /\ UNCHANGED <<bresponse, bhist>>
             ELSE /\ bresponse' = r.text /\ bhist' = Append(bhist, r.text)
                  /\ bpc' = "handle" /\ UNCHANGED braised
    /\ UNCHANGED <<messages, btools, bresult>>
    /\ UNCHANGED <<xvars, rvars, mvars, avars, cvars, lvars>>

\* the body of the loop after the request: the tool call, or the return
BridgeHandle ==
    /\ bpc = "handle"
    /\ IF HasMarker[bresponse]
       THEN LET call == ToolCallOf[bresponse]
            IN IF call.ok
               THEN \E outcome \in ToolOutcomes :
                       LET tool_result == CallTool(call.tool_name, call.args, outcome)
                       IN /\ messages' = messages \o
                               << [role |-> "assistant",
                                   content |-> "I'll search for those lyrics using "
                                                 \o call.tool_name \o "."],
                                  [role |-> "system",
                                   content |-> "Tool result: " \o tool_result],
                                  [role |-> "user",
                                   content |-> "Now please analyze these lyrics."] >>
                          /\ btools' = btools + 1
                          /\ bpc' = "loop"
                          /\ UNCHANGED bresult
               ELSE /\ bresult' = [kind |-> "parse_error",
                                   text |-> "Error parsing tool call: " \o call.error
                                              \o "\nResponse: " \o bresponse]
                    /\ bpc' = "done"
                    /\ UNCHANGED <<messages, btools>>
       ELSE /\ bresult' = [kind |-> "response", text |-> bresponse]
            /\ bpc' = "done"
            /\ UNCHANGED <<messages, btools>>
    /\ UNCHANGED <<iteration, bresponse, bhist, braised>>
    /\ UNCHANGED <<xvars, rvars, mvars, avars, cvars, lvars>>

\* the loop condition fails: return "Max iterations reached"
BridgeMax ==
    /\ bpc = "loop" /\ iteration >= MaxIterations
    /\ bresult' = [kind |-> "max", text |-> "Max iterations reached"]
    /\ bpc' = "done"
    /\ UNCHANGED <<iteration, messages, bresponse, bhist, btools, braised>>
    /\ UNCHANGED <<xvars, rvars, mvars, avars, cvars, lvars>>

UserMessages ==
    { "Please analyze the worship song 'Amazing Grace'.",
      "Please analyze the worship song 'Amazing Grace' by John Newton." }

InitBridge ==
    /\ bpc = "loop" /\ iteration = 0
    /\ \E m \in UserMessages : messages = <<[role |-> "user", content |-> m]>>
    /\ bresponse = "" /\ bhist = <<>> /\ btools = 0
    /\ bresult = NoResult /\ braised = FALSE
    /\ ExtractorIdle /\ RetrievalIdle /\ McpIdle /\ AnalyzerIdle
    /\ MainIdle /\ LabelsIdle

NextBridge == BridgeRequest \/ BridgeHandle \/ BridgeMax

SpecBridge == InitBridge /\ [][NextBridge]_vars

\* the response holds a well-formed tool call
WellFormedCall(r) == HasMarker[r] /\ ToolCallOf[r].ok

\* C27 (as claimed): chat_with_tools always returns a string; it issues at
\* most 5 model requests and at most 5 tool invocations, returns the first
\* response that holds no tool-call marker, and returns "Max iterations
\* reached" exactly when each of the 5 responses held a well-formed tool
\* call.
C27_BoundedLoopReturnsString ==
    /\ iteration <= 5 /\ btools <= 5
    /\ bpc = "done" =>
          /\ ~braised /\ bresult.kind \in {"response", "parse_error", "max"}
          /\ (\E k \in 1..Len(bhist) : ~HasMarker[bhist[k]]) =>
                /\ bresult.kind = "response"
                /\ bresult.text = bhist[Len(bhist)]
                /\ \A k \in 1..(Len(bhist) - 1) : HasMarker[bhist[k]]
          /\ bresult.text = "Max iterations reached" <=>
                (Len(bhist) = 5 /\ \A k \in 1..5 : WellFormedCall(bhist[k]))

-----------------------------------------------------------------------------
(* The labels CLI: call_ollama and analyze_lyrics of analyze_lyrics.py      *)

\* the try block of analyze_lyrics on the reply: the span from the first
\* "[" to the last "]" when json.loads accepts it, else the reply itself
ExtractLabels(response) ==
    LET start == IndexOf(response, "[") - 1
        end   == LastIndexOf(response, "]")
    IN IF start # -1 /\ end # 0
       THEN LET json_str == SubSeq(response, start + 1, end)
            IN IF JsonValid(json_str)
               THEN [kind |-> "span", text |-> json_str]
               ELSE [kind |-> "reply", text |-> response]
       ELSE [kind |-> "reply", text |-> response]

\* what the model process prints
LabelPrefixes == {"", "Here are the labels: ", "\n", "] ", "Labels [draft]: "}
LabelArrays ==
    { "[\"grace\", \"faith\", \"hope\"]", "[\"grace\"] and [\"faith\"]", "[grace, faith]",
      "[]", "[\"grace\"", "I cannot analyze these lyrics." }
LabelSuffixes == {"", " Hope this helps!", "\n", " (see note [1])"}
LabelStdouts ==
    {p \o a \o s : p \in LabelPrefixes, a \in LabelArrays, s \in LabelSuffixes}

\* call_ollama: result.stdout.strip(), or sys.exit(1) when the process
\* fails or the program is not installed
CallOllama(kind, stdout) ==
    IF kind = "ok" THEN [exited |-> FALSE, text |-> Strip(stdout)]
    ELSE [exited |-> TRUE, text |-> ""]

LabelReplies == {CallOllama("ok", o).text : o \in LabelStdouts}
LabelsOf == [r \in LabelReplies |-> ExtractLabels(r)]

\* response = call_ollama(prompt)
LabelsCall ==
    /\ lpc = "call"
    /\ \E kind \in {"ok", "called_process_error", "file_not_found"} :
       \E stdout \in IF kind = "ok" THEN LabelStdouts ELSE {""} :
          LET r == CallOllama(kind, stdout)
          IN IF r.exited
             THEN lstatus' = 1 /\ lpc' = "exit" /\ UNCHANGED lreply
             ELSE lreply' = r.text /\ lpc' = "extract" /\ UNCHANGED lstatus
    /\ UNCHANGED lresult
    /\ UNCHANGED <<xvars, rvars, mvars, avars, cvars, bvars>>

\* the try block and the return of analyze_lyrics
LabelsExtract ==
    /\ lpc = "extract"
    /\ lresult' = LabelsOf[lreply]
    /\ lpc' = "done"
    /\ UNCHANGED <<lreply, lstatus>>
    /\ UNCHANGED <<xvars, rvars, mvars, avars, cvars, bvars>>

InitLabels ==
    /\ lpc = "call" /\ lreply = "" /\ lresult = NoResult /\ lstatus = -1
    /\ ExtractorIdle /\ RetrievalIdle /\ McpIdle /\ AnalyzerIdle
    /\ MainIdle /\ BridgeIdle

NextLabels == LabelsCall \/ LabelsExtract

SpecLabels == InitLabels /\ [][NextLabels]_vars

\* the span of the reply from its first "[" to its last "]"
BracketSpan(r) == SubSeq(r, IndexOf(r, "["), LastIndexOf(r, "]"))

\* C28 (as claimed): for every model reply the string analyze_lyrics returns
\* is a valid JSON array; when the reply has extra text around the array,
\* the result is exactly the span from the first "[" to the last "]" and
\* that span parses as JSON.
C28_AlwaysJsonArray ==
    lpc = "done" =>
        /\ IsJsonArray(lresult.text)
        /\ (IndexOf(lreply, "[") > 0 /\ LastIndexOf(lreply, "]") > 0) =>
              /\ lresult.text = BracketSpan(lreply)
              /\ JsonValid(BracketSpan(lreply))

-----------------------------------------------------------------------------
(* Properties of the fetch loops (under SpecSearch and Spec)               *)

\* C29 (as claimed): each retrieval stage attempts at most 6 candidate-page
\* fetches whatever the number of search results: at most 6 direct, 3
\* dedicated-search and 3 general-search URLs in LyricsClient.get_lyrics,
\* and at most 6 URLs in the search stage of the server's get_lyrics.
C29_AtMostSixFetchesPerStage ==
    /\ FetchCount("direct") <= 6
    /\ FetchCount("genius") <= 3
    /\ FetchCount("google") <= 3
    /\ Len(mfetched) <= 6

\* the URLs fetched so far in this invocation of get_lyrics, in order
FetchedUrls ==
    LET fetches == SelectSeq(rlog, LAMBDA q : q.kind = "fetch")
    IN [k \in 1..Len(fetches) |-> fetches[k].target]

\* C30 (as claimed): within one invocation of LyricsClient.get_lyrics no URL
\* is fetched more than once across the direct, dedicated-search and
\* general-search stages, also when a result page lists a link twice or a
\* search returns a URL tried in an earlier stage.
C30_NoUrlFetchedTwice ==
    \A i, j \in 1..Len(FetchedUrls) : FetchedUrls[i] = FetchedUrls[j] => i = j

=============================================================================
